---- MODULE Spec2Model ----
(***************************************************************************)
(* A model of aiotnb's validation/transformation engine                    *)
(* (src/aiotnb/validation.py), its ArgsManager registry and the            *)
(* position-based PaginatedResponse cursor (src/aiotnb/models/__init__.py).*)
(*                                                                         *)
(* Python objects are records tagged by their runtime type in field t.     *)
(* A raised exception is the record Raise(exc, why): an operator that      *)
(* models a Python call returns either the value the call returns or the   *)
(* exception it raises.                                                    *)
(***************************************************************************)
EXTENDS Integers, Sequences, FiniteSets, TLC

(***************************************************************************)
(* Python values                                                           *)
(***************************************************************************)
PyNone == [t |-> "NoneType"]
PyInt(n) == [t |-> "int", v |-> n]
PyStr(s) == [t |-> "str", v |-> s]
\* a float, held in hundredths: PyFloat(238) is 2.38
PyFloat(n) == [t |-> "float", v |-> n]
PyBool(b) == [t |-> "bool", v |-> b]
\* a dict: m is a function from its keys (strings) to its values
PyDict(m) == [t |-> "dict", m |-> m]
PyList(s) == [t |-> "list", s |-> s]
\* the empty mapping / keyword arguments
NoKw == [k \in {} |-> PyNone]

Raise(exc, why) == [t |-> "raise", exc |-> exc, why |-> why]
IsRaise(v) == v.t = "raise"
\* the error taxonomy of the engine: every engine failure is a
\* ValidatorTransformError; "why" tells the raise sites apart
VTE(why) == Raise("ValidatorTransformError", why)
TypeError(why) == Raise("TypeError", why)

\* first raised exception of a sequence of results, in evaluation order
FirstRaise(seq) ==
  LET bad == {i \in DOMAIN seq : IsRaise(seq[i])}
  IN  seq[CHOOSE i \in bad : \A j \in bad : i <= j]
AnyRaise(seq) == \E i \in DOMAIN seq : IsRaise(seq[i])

\* merge of keyword mappings a and b with disjoint keys
KwMerge(a, b) ==
  [k \in (DOMAIN a) \cup (DOMAIN b) |-> IF k \in DOMAIN a THEN a[k] ELSE b[k]]

\* bool(x) of a Python object
Truthy(x) ==
  CASE x.t = "NoneType" -> FALSE
    [] x.t = "int"      -> x.v # 0
    [] x.t = "float"    -> x.v # 0
    [] x.t = "bool"     -> x.v
    [] x.t = "str"      -> x.v # ""
    [] x.t = "dict"     -> DOMAIN x.m # {}
    [] x.t = "list"     -> Len(x.s) > 0
    [] x.t = "URL"      -> x.v # ""
    [] OTHER            -> TRUE

\* isinstance(x, T) for the builtin and library types of the model
\* (bool is a subclass of int; everything is an object)
IsInstance(x, T) ==
  \/ T = "object"
  \/ x.t = T
  \/ x.t = "bool" /\ T = "int"

(***************************************************************************)
(* The callables the schemas of the repository convert with                *)
(* (models/helpers.py) and the builtin constructors they name.             *)
(***************************************************************************)
\* the strings float() parses, with the value each denotes (in hundredths)
FloatStrings == {"0.00", "2.38"}
FloatOf(s) == IF s = "0.00" THEN 0 ELSE 238
\* the strings datetime.fromisoformat() parses once a final Z is rewritten
TimestampStrings == {"2020-10-08T02:18:07.346849Z"}
\* the strings that hex-decode to a 32 byte key
HexKeyStrings ==
  {"a37e2836805975f334108b55523634c995bd2a4db610062f404510617e83126f",
   "bbbbbbbbbbbbbbbbbbbbbbbbbbbbbbbbbbbbbbbbbbbbbbbbbbbbbbbbbbbbbbbb",
   "cccccccccccccccccccccccccccccccccccccccccccccccccccccccccccccccc",
   "dddddddddddddddddddddddddddddddddddddddddddddddddddddddddddddddd"}

\* _parse_iso8601_utc(timestamp): timestamp[-1] and fromisoformat raise on
\* anything but a well-formed string
_parse_iso8601_utc(x) ==
  IF x.t = "str" /\ x.v \in TimestampStrings
  THEN [t |-> "datetime", v |-> x.v]
  ELSE IF x.t = "str" THEN Raise("ValueError", "Invalid isoformat string")
  ELSE TypeError("not a string")

\* _key_from_str(key_str): VerifyKey(key_str.encode("utf-8"), encoder=HexEncoder)
_key_from_str(x) ==
  IF x.t = "str" /\ x.v \in HexKeyStrings
  THEN [t |-> "VerifyKey", v |-> x.v]
  ELSE IF x.t = "str" THEN Raise("ValueError", "not a 32 byte hex key")
  ELSE Raise("AttributeError", "no attribute encode")

\* float(x)
PyFloatCall(pos, kw) ==
  IF DOMAIN kw # {} THEN TypeError("float() takes no keyword arguments")
  ELSE IF Len(pos) = 0 THEN PyFloat(0)
  ELSE IF Len(pos) > 1 THEN TypeError("float expected at most 1 argument")
  ELSE LET x == pos[1] IN
    CASE x.t = "float" -> x
      [] x.t = "int"   -> PyFloat(100 * x.v)
      [] x.t = "bool"  -> PyFloat(IF x.v THEN 100 ELSE 0)
      [] x.t = "str"   -> IF x.v \in FloatStrings THEN PyFloat(FloatOf(x.v))
                          ELSE Raise("ValueError", "could not convert string to float")
      [] OTHER         -> TypeError("float() argument must be a string or a number")

\* yarl.URL(val): a str is parsed, a URL is returned as it is
PyURLCall(pos, kw) ==
  IF DOMAIN kw \ {"encoded", "strict"} # {} THEN TypeError("unexpected keyword argument")
  ELSE IF Len(pos) = 0 THEN [t |-> "URL", v |-> ""]
  ELSE IF Len(pos) > 1 THEN TypeError("URL() takes 1 positional argument")
  ELSE LET x == pos[1] IN
    CASE x.t = "URL" -> x
      [] x.t = "str" -> [t |-> "URL", v |-> x.v]
      [] OTHER       -> TypeError("Constructor parameter should be str")

\* dict(**kwargs), dict(mapping, **kwargs)
PyDictCall(pos, kw) ==
  IF Len(pos) = 0 THEN PyDict(kw)
  ELSE IF Len(pos) > 1 THEN TypeError("dict expected at most 1 argument")
  ELSE IF pos[1].t = "dict" THEN PyDict(kw @@ pos[1].m)
  ELSE IF pos[1].t = "list" /\ Len(pos[1].s) = 0 THEN PyDict(kw)
  ELSE TypeError("cannot convert dictionary update sequence element")

\* Account.__init__(self, *, id, created_date, modified_date, account_number,
\* trust, bank_id): keyword-only, all six required
AccountFields ==
  {"id", "created_date", "modified_date", "account_number", "trust", "bank_id"}
AccountCall(pos, kw) ==
  IF Len(pos) > 0 THEN TypeError("__init__() takes 1 positional argument")
  ELSE IF DOMAIN kw \ AccountFields # {} THEN TypeError("unexpected keyword argument")
  ELSE IF AccountFields \ DOMAIN kw # {} THEN TypeError("missing required keyword-only argument")
  ELSE IF kw["account_number"].t # "VerifyKey"
       THEN Raise("AttributeError", "account_number.encode(encoder=HexEncoder)")
  ELSE [t |-> "Account",
        id |-> kw["id"], created_date |-> kw["created_date"],
        modified_date |-> kw["modified_date"], trust |-> kw["trust"],
        bank_id |-> kw["bank_id"],
        account_number |-> [t |-> "bytes", v |-> kw["account_number"].v],
        _public_key |-> kw["account_number"]]

\* a function of one parameter called with pos and kw
OneArg(pos, kw) == Len(pos) = 1 /\ DOMAIN kw = {}

\* UrlProtocol(value), NodeType(value) of enums.py: the member of that value
UrlProtocol(x) ==
  IF x.t = "str" /\ x.v \in {"http", "https"}
  THEN [t |-> "UrlProtocol", name |-> x.v, value |-> x.v]
  ELSE Raise("ValueError", "is not a valid UrlProtocol")
NodeType(x) ==
  CASE x.t = "str" /\ x.v = "BANK" ->
         [t |-> "NodeType", name |-> "bank", value |-> x.v]
    [] x.t = "str" /\ x.v = "PRIMARY_VALIDATOR" ->
         [t |-> "NodeType", name |-> "primary_validator", value |-> x.v]
    [] x.t = "str" /\ x.v = "CONFIRMATION_VALIDATOR" ->
         [t |-> "NodeType", name |-> "confirmation_validator", value |-> x.v]
    [] x.t = "str" /\ x.v = "" ->
         [t |-> "NodeType", name |-> "_none", value |-> x.v]
    [] OTHER -> Raise("ValueError", "is not a valid NodeType")
\* Fn(bytes.fromhex).transform(x)
FnBytesFromHex(x) ==
  IF x.t = "str" /\ x.v \in HexKeyStrings THEN [t |-> "bytes", v |-> x.v]
  ELSE VTE("fromhex failed")

\* transformer(*pos, **kw) for the callables of the model
PyCall(f, pos, kw) ==
  CASE f = "float"   -> PyFloatCall(pos, kw)
    [] f = "UrlProtocol" ->
         IF OneArg(pos, kw) THEN UrlProtocol(pos[1])
         ELSE TypeError("UrlProtocol() takes 1 positional argument")
    [] f = "NodeType" ->
         IF OneArg(pos, kw) THEN NodeType(pos[1])
         ELSE TypeError("NodeType() takes 1 positional argument")
    [] f = "Fn(bytes.fromhex)" ->
         IF OneArg(pos, kw) THEN FnBytesFromHex(pos[1])
         ELSE TypeError("transform() takes 2 positional arguments")
    [] f = "URL"     -> PyURLCall(pos, kw)
    [] f = "dict"    -> PyDictCall(pos, kw)
    [] f = "Account" -> AccountCall(pos, kw)
    [] f = "_parse_iso8601_utc" ->
         IF OneArg(pos, kw) THEN _parse_iso8601_utc(pos[1])
         ELSE TypeError("_parse_iso8601_utc() takes 1 positional argument")
    [] f = "_key_from_str" ->
         IF OneArg(pos, kw) THEN _key_from_str(pos[1])
         ELSE TypeError("_key_from_str() takes 1 positional argument")

(***************************************************************************)
(* Specifications (validation.py).  A raw specification is a Python object:*)
(* Ellipsis, a literal, a function, a class, a Validator, a dict or a list *)
(* of raw specifications.  A Validator is a record of t = "Validator"      *)
(* whose kind names its class.                                             *)
(***************************************************************************)
Ellipsis == [t |-> "ellipsis"]
PyFunction(name) == [t |-> "function", name |-> name]
PyType(name) == [t |-> "type", name |-> name]
\* a dict literal of a specification: keys in insertion order
SpecDict(keys, m) == [t |-> "dict", keys |-> keys, m |-> m]

IGNORE == 0
VALUE == 1
CALLABLE == 2
VALIDATOR == 3
TYPE == 4
DICT == 5
ITER == 6

_priority(item) ==
  CASE item.t \in {"list", "tuple", "set", "frozenset"} -> ITER
    [] item.t = "dict"      -> DICT
    [] item.t = "type"      -> TYPE
    [] item.t = "Validator" -> VALIDATOR
    [] item.t = "function"  -> CALLABLE
    [] item.t = "ellipsis"  -> IGNORE
    [] OTHER                -> VALUE

\* twice the sort key, so that the .5 of a Maybe stays an integer
_priority_by_key(item) ==
  IF item.t = "Validator" /\ item.kind = "Maybe"
  THEN 2 * _priority(item.validator) + 1
  ELSE 2 * _priority(item)

\* sorted(validator, key=_priority_by_key, reverse=reverse): the keys of the
\* dict (strings), stably sorted by the priority of each key
RECURSIVE ConcatGroups(_, _, _)
ConcatGroups(keys, order, i) ==
  IF i > Len(order) THEN <<>>
  ELSE SelectSeq(keys, LAMBDA k : _priority_by_key(PyStr(k)) = order[i])
       \o ConcatGroups(keys, order, i + 1)
SortedKeys(keys, reverse) ==
  LET up == [i \in 1..14 |-> i - 1]
      down == [i \in 1..14 |-> 14 - i]
  IN  \* a stable sort leaves keys of one priority as they are
      IF \A i \in DOMAIN keys :
            _priority_by_key(PyStr(keys[i])) = _priority_by_key(PyStr(keys[1]))
      THEN keys
      ELSE ConcatGroups(keys, IF reverse THEN down ELSE up, 1)

NoKwargs == [ignore_extra_keys |-> FALSE]

Ignore == [t |-> "Validator", kind |-> "Ignore"]
Const(v) == [t |-> "Validator", kind |-> "Const", validator |-> v]
Fn(f) == [t |-> "Validator", kind |-> "Fn", validator |-> f]
Type(T, strict) ==
  [t |-> "Validator", kind |-> "Type", validator |-> T, is_strict |-> strict]

\* Schema(validator, **kwargs).resolve()
RECURSIVE Resolve(_, _)
Resolve(validator, kwargs) ==
  LET type_ == _priority(validator) IN
  CASE type_ = IGNORE ->
         [t |-> "Validator", kind |-> "Schema", validator |-> validator, kwargs |-> kwargs]
    [] type_ = VALUE     -> Const(validator)
    [] type_ = CALLABLE  -> Fn(validator.name)
    [] type_ = VALIDATOR -> validator
    [] type_ = TYPE      -> Type(validator.name, FALSE)
    [] type_ = DICT ->
         LET keys == SortedKeys(validator.keys, FALSE) IN
         [t |-> "Validator", kind |-> "Schema", kwargs |-> kwargs,
          validator |-> SpecDict(keys,
             [k \in DOMAIN validator.m |-> Resolve(validator.m[k], kwargs)])]
    [] type_ = ITER ->
         [t |-> "Validator", kind |-> "Schema", kwargs |-> kwargs,
          validator |-> PyList([i \in DOMAIN validator.s |-> Resolve(validator.s[i], kwargs)])]

\* Schema(validator, ignore_extra_keys=flag), resolved
Schema(validator, flag) == Resolve(validator, [ignore_extra_keys |-> flag])
Maybe(validator) ==
  [t |-> "Validator", kind |-> "Maybe", validator |-> Resolve(validator, NoKwargs)]
As(validator, transformer, unpack_args) ==
  [t |-> "Validator", kind |-> "As", validator |-> Resolve(validator, NoKwargs),
   transformer |-> transformer, unpack_params |-> unpack_args]

(***************************************************************************)
(* ArgsManager: the registry of ambient constructor arguments.  types maps *)
(* a target to dict(args, kwargs), or to None once clear_type has run.     *)
(***************************************************************************)
ArgsEntry(args, kwargs) == [t |-> "dict", args |-> args, kwargs |-> kwargs]
has_type(types, type_) == type_ \in DOMAIN types
register_type(types, type_, args, kwargs) ==
  [k \in (DOMAIN types) \cup {type_} |->
     IF k = type_ THEN ArgsEntry(args, kwargs) ELSE types[k]]
\* ArgsManager.get_args: cls.types[type_]["args"], cls.types[type_]["kwargs"]
get_args(types, type_) ==
  IF types[type_] = PyNone THEN TypeError("'NoneType' object is not subscriptable")
  ELSE [t |-> "tuple", args |-> types[type_].args, kwargs |-> types[type_].kwargs]
clear_type(types, type_) ==
  [k \in (DOMAIN types) \cup {type_} |-> IF k = type_ THEN PyNone ELSE types[k]]

(***************************************************************************)
(* Python's data == validator on the values of the model: numbers compare  *)
(* by value across int, float and bool, anything else by type and content. *)
(***************************************************************************)
IsNumber(x) == x.t \in {"int", "float", "bool"}
Hundredths(x) ==
  CASE x.t = "int"   -> 100 * x.v
    [] x.t = "float" -> x.v
    [] x.t = "bool"  -> IF x.v THEN 100 ELSE 0
PyEq(a, b) ==
  IF IsNumber(a) /\ IsNumber(b) THEN Hundredths(a) = Hundredths(b)
  ELSE a.t = b.t /\ a = b

(***************************************************************************)
(* type(data)(gen): what Schema.validate and Schema.transform build from   *)
(* the generator over a sequence specification.                            *)
(***************************************************************************)
\* the elements iterating data yields (for a dict, its keys)
RECURSIVE SetToSeq(_)
SetToSeq(S) ==
  IF S = {} THEN <<>>
  ELSE LET x == CHOOSE y \in S : TRUE IN <<x>> \o SetToSeq(S \ {x})
IsIterable(data) == data.t \in {"list", "dict", "str"}
Elements(data) ==
  CASE data.t = "list" -> data.s
    [] data.t = "dict" -> [i \in 1..Cardinality(DOMAIN data.m) |->
                             PyStr(SetToSeq(DOMAIN data.m)[i])]
    [] OTHER           -> <<>>
\* the two-character strings of the model, as the pair dict() makes of each
PairStrings == {"id"}
\* dict(gen): the elements are taken in turn; the first that raised, or that
\* is no sequence of length two, ends the call
IsPair(e) == e.t = "str" /\ e.v \in PairStrings
DictFromElements(elems) ==
  LET bad == {i \in DOMAIN elems : IsRaise(elems[i]) \/ ~IsPair(elems[i])} IN
  IF bad = {} THEN
     IF Len(elems) = 0 THEN PyDict(NoKw) ELSE PyDict([k \in {"i"} |-> PyStr("d")])
  ELSE LET i == CHOOSE i \in bad : \A j \in bad : i <= j IN
       IF IsRaise(elems[i]) THEN elems[i]
       ELSE TypeError("cannot convert dictionary update sequence element")
\* type(data)(elems)
Rebuild(data, elems) ==
  CASE data.t = "list" -> IF AnyRaise(elems) THEN FirstRaise(elems) ELSE PyList(elems)
    [] data.t = "dict" -> DictFromElements(elems)
    [] data.t = "str"  -> PyStr("<generator object>")
    [] OTHER           -> TypeError("object is not iterable")
\* all(x) of what Rebuild returned
PyAll(x) ==
  CASE x.t = "raise" -> x
    [] x.t = "list"  -> PyBool(\A i \in DOMAIN x.s : Truthy(x.s[i]))
    [] OTHER         -> PyBool(TRUE)

(***************************************************************************)
(* validate and transform of every Validator class.  types is the state of *)
(* ArgsManager.types at the call.  Validate returns PyBool or the          *)
(* exception raised; Transform the converted value or the exception.       *)
(***************************************************************************)
RECURSIVE Validate(_, _, _)
RECURSIVE Transform(_, _, _)

\* Const.transform
ConstTransform(self, data) ==
  IF PyEq(data, self.validator) THEN data ELSE VTE("ConstMismatch")

\* Fn.transform: whatever the function raises is wrapped
FnTransform(self, data) ==
  LET val == PyCall(self.validator, <<data>>, NoKw) IN
  IF IsRaise(val) THEN VTE("ConversionFailed") ELSE val

\* Type.transform
TypeTransform(self, data) ==
  LET valid == IF self.is_strict
               THEN data.t = "type"     \* type(data) == type(self.validator)
               ELSE IsInstance(data, self.validator) IN
  IF valid THEN data ELSE VTE("TypeMismatch")

\* Maybe.validate, Maybe.transform
MaybeValidate(self, data, types) ==
  IF data = PyNone THEN PyBool(TRUE) ELSE Validate(self.validator, data, types)
\* mutant of MaybeTransform: None is handed to the inner validator
MaybeTransform_NoShortCircuit(self, data, types) ==
  Transform(self.validator, data, types)
MaybeTransform(self, data, types) ==
  IF data = PyNone THEN PyNone ELSE Transform(self.validator, data, types)

\* mutant of AsCall: a keyword the registry supplies replaces the field of
\* the same name instead of clashing with it
AsCall_AmbientWins(self, data, new_data, args, kwargs) ==
  LET type_ == _priority(data)
      first ==
        IF ~self.unpack_params THEN PyNone
        ELSE IF type_ = DICT THEN
           IF new_data.t # "dict" THEN TypeError("argument after ** must be a mapping")
           ELSE PyCall(self.transformer, args, KwMerge(kwargs, new_data.m))
        ELSE IF type_ = ITER THEN
           IF ~IsIterable(new_data) THEN TypeError("argument after * must be an iterable")
           ELSE PyCall(self.transformer, Elements(new_data) \o args, kwargs)
        ELSE PyNone
      result ==
        IF IsRaise(first) THEN first
        ELSE IF ~Truthy(first) THEN PyCall(self.transformer, <<new_data>> \o args, kwargs)
        ELSE first
  IN  IF IsRaise(result) THEN VTE("ConversionFailed") ELSE result
\* the target called on the converted value: As.transform, lines 232-265
AsCall(self, data, new_data, args, kwargs) ==
  LET type_ == _priority(data)
      first ==
        IF ~self.unpack_params THEN PyNone
        ELSE IF type_ = DICT THEN
           IF new_data.t # "dict" THEN TypeError("argument after ** must be a mapping")
           ELSE IF (DOMAIN new_data.m) \cap (DOMAIN kwargs) # {}
                THEN TypeError("got multiple values for keyword argument")
           ELSE PyCall(self.transformer, args, KwMerge(new_data.m, kwargs))
        ELSE IF type_ = ITER THEN
           IF ~IsIterable(new_data) THEN TypeError("argument after * must be an iterable")
           ELSE PyCall(self.transformer, Elements(new_data) \o args, kwargs)
        ELSE PyNone
      result ==
        IF IsRaise(first) THEN first
        ELSE IF ~Truthy(first) THEN PyCall(self.transformer, <<new_data>> \o args, kwargs)
        ELSE first
  IN  IF IsRaise(result) THEN VTE("ConversionFailed") ELSE result

\* As.transform
AsTransform(self, data, types) ==
  LET new_data == Transform(self.validator, data, types) IN
  IF IsRaise(new_data) THEN new_data
  ELSE IF has_type(types, self.transformer) THEN
     \* ArgsManager.get_args: cls.types[type_]["args"]
     IF types[self.transformer] = PyNone
     THEN TypeError("'NoneType' object is not subscriptable")
     ELSE AsCall(self, data, new_data,
                 types[self.transformer].args, types[self.transformer].kwargs)
  ELSE AsCall(self, data, new_data, <<>>, NoKw)

\* Schema.validate on a dict specification, lines 400-425
DictValidate(self, data, types) ==
  LET validator == self.validator IN
  IF data.t = "dict" THEN
     LET keys == SortedKeys(validator.keys, TRUE)
         result == [i \in DOMAIN keys |->
                      IF keys[i] \in DOMAIN data.m
                      THEN Validate(validator.m[keys[i]], data.m[keys[i]], types)
                      ELSE PyBool(TRUE)]
         stop == {i \in DOMAIN keys : IsRaise(result[i]) \/ ~Truthy(result[i])}
         \* visited_keys.add(key) runs for every key, present or not
         visited_keys == {keys[i] : i \in DOMAIN keys}
     IN  IF stop # {} THEN
            LET i == CHOOSE i \in stop : \A j \in stop : i <= j IN
            IF IsRaise(result[i]) THEN result[i] ELSE PyBool(FALSE)
         ELSE IF visited_keys # {keys[i] : i \in DOMAIN keys} THEN PyBool(FALSE)
         ELSE PyBool(TRUE)
  ELSE PyBool(FALSE)

\* mutant of DictTransform: a key the mapping lacks is skipped, as validate
\* skips it
DictTransform_SkipMissing(self, data, types) ==
  LET validator == self.validator IN
  IF data.t = "dict" THEN
     LET keys == SelectSeq(SortedKeys(validator.keys, TRUE),
                           LAMBDA k : k \in DOMAIN data.m)
         new == [i \in DOMAIN keys |->
                   Transform(validator.m[keys[i]], data.m[keys[i]], types)]
     IN  IF AnyRaise(new) THEN FirstRaise(new)
         ELSE PyDict([k \in {keys[i] : i \in DOMAIN keys} |->
                        new[CHOOSE i \in DOMAIN keys : keys[i] = k]])
  ELSE VTE("ExpectedDict")

\* Schema.transform on a dict specification, lines 473-505
DictTransform(self, data, types) ==
  LET validator == self.validator IN
  IF data.t = "dict" THEN
     LET keys == SortedKeys(validator.keys, TRUE)
         new == [i \in DOMAIN keys |->
                   IF keys[i] \in DOMAIN data.m
                   THEN Transform(validator.m[keys[i]], data.m[keys[i]], types)
                   ELSE VTE("MissingField")]
         visited_keys == {keys[i] : i \in DOMAIN keys}
         required_keys == IF self.kwargs.ignore_extra_keys
                          THEN visited_keys \cup DOMAIN data.m
                          ELSE visited_keys
     IN  IF AnyRaise(new) THEN FirstRaise(new)
         ELSE IF visited_keys # required_keys /\ visited_keys \subseteq required_keys
              THEN VTE("MissingInValidator")
         ELSE PyDict([k \in visited_keys |->
                        new[CHOOSE i \in DOMAIN keys : keys[i] = k]])
  ELSE VTE("ExpectedDict")

\* the generator of Schema.validate / Schema.transform over a sequence
\* specification: one validator for every element, or validators and elements
\* zipped
Paired(validator, data) ==
  LET elems == Elements(data) IN
  IF Len(validator) = 1
  THEN [i \in DOMAIN elems |-> <<validator[1], elems[i]>>]
  ELSE [i \in 1..(IF Len(validator) < Len(elems) THEN Len(validator) ELSE Len(elems))
          |-> <<validator[i], elems[i]>>]

\* Schema.validate on a sequence specification, lines 427-436
IterValidate(self, data, types) ==
  IF ~IsIterable(data) THEN TypeError("object is not iterable")
  ELSE LET pairs == Paired(self.validator.s, data) IN
       PyAll(Rebuild(data, [i \in DOMAIN pairs |->
                              Validate(pairs[i][1], pairs[i][2], types)]))

\* mutant of IterTransform: the last element of the input is left out
IterTransform_DropsLast(self, data, types) ==
  IF ~IsIterable(data) THEN TypeError("object is not iterable")
  ELSE LET pairs == Paired(self.validator.s, data) IN
       Rebuild(data, [i \in 1..(Len(pairs) - 1) |->
                        Transform(pairs[i][1], pairs[i][2], types)])
\* Schema.transform on a sequence specification, lines 507-516
IterTransform(self, data, types) ==
  IF ~IsIterable(data) THEN TypeError("object is not iterable")
  ELSE LET pairs == Paired(self.validator.s, data) IN
       Rebuild(data, [i \in DOMAIN pairs |->
                        Transform(pairs[i][1], pairs[i][2], types)])

Transform(self, data, types) ==
  CASE self.kind = "Ignore" -> data
    [] self.kind = "Const"  -> ConstTransform(self, data)
    [] self.kind = "Fn"     -> FnTransform(self, data)
    [] self.kind = "Type"   -> TypeTransform(self, data)
    [] self.kind = "Maybe"  -> MaybeTransform(self, data, types)
    [] self.kind = "As"     -> AsTransform(self, data, types)
    [] self.kind = "Schema" ->
         LET type_ == _priority(self.validator) IN
         CASE type_ = IGNORE    -> data
           [] type_ = VALUE     -> ConstTransform(Const(self.validator), data)
           [] type_ = CALLABLE  -> FnTransform(Fn(self.validator.name), data)
           [] type_ = VALIDATOR -> Transform(self.validator, data, types)
           [] type_ = TYPE      -> TypeTransform(Type(self.validator.name, FALSE), data)
           [] type_ = DICT      -> DictTransform(self, data, types)
           [] type_ = ITER      -> IterTransform(self, data, types)

Validate(self, data, types) ==
  CASE self.kind = "Ignore" -> PyBool(TRUE)
    [] self.kind = "Const"  -> PyBool(PyEq(data, self.validator))
    [] self.kind = "Fn"     -> PyBool(~IsRaise(FnTransform(self, data)))
    [] self.kind = "Type"   -> PyBool(~IsRaise(TypeTransform(self, data)))
    [] self.kind = "Maybe"  -> MaybeValidate(self, data, types)
    [] self.kind = "As"     -> Validate(self.validator, data, types)
    [] self.kind = "Schema" ->
         LET type_ == _priority(self.validator) IN
         CASE type_ = IGNORE    -> PyBool(TRUE)
           [] type_ = VALUE     -> PyBool(PyEq(data, self.validator))
           [] type_ = CALLABLE  -> PyBool(~IsRaise(FnTransform(Fn(self.validator.name), data)))
           [] type_ = VALIDATOR -> Validate(self.validator, data, types)
           [] type_ = TYPE      ->
                PyBool(~IsRaise(TypeTransform(Type(self.validator.name, FALSE), data)))
           [] type_ = DICT      -> DictValidate(self, data, types)
           [] type_ = ITER      -> IterValidate(self, data, types)

\* the module's transform(schema, data): validate, then transform
transform(schema, data, types) ==
  LET is_ok == Validate(schema, data, types) IN
  IF IsRaise(is_ok) THEN is_ok
  ELSE IF ~Truthy(is_ok) THEN Raise("ValidatorFailed", "validate returned False")
  ELSE Transform(schema, data, types)

(***************************************************************************)
(* The schemas of the repository (models/helpers.py).                      *)
(***************************************************************************)
\* Key = partial(As, str)
Key(transformer) == As(PyType("str"), transformer, TRUE)
AccountNumber == Key("_key_from_str")
ISO8601UTCTimestamp == Key("_parse_iso8601_utc")
Url == Key("URL")
AccountSchema ==
  SpecDict(<<"id", "created_date", "modified_date", "account_number", "trust">>,
           [id |-> PyType("str"), created_date |-> ISO8601UTCTimestamp,
            modified_date |-> ISO8601UTCTimestamp, account_number |-> AccountNumber,
            trust |-> Key("float")])

(***************************************************************************)
(* Inputs of the engine: the specifications and the data it is checked on. *)
(***************************************************************************)
\* longest input sequence
MaxListLen == 2

\* every function from a subset of keys into vals
PartialMaps(keys, vals) == UNION {[K -> vals] : K \in SUBSET keys}
\* every sequence over vals of length 0..n
SeqsUpTo(vals, n) == UNION {[1..k -> vals] : k \in 0..n}

SampleScalars == {PyNone, PyInt(1), PyStr("x"), PyStr("0.00"), PyBool(TRUE)}
SampleFieldValues == {PyNone, PyInt(1), PyStr("x")}
SampleKeys == {"id", "trust", "extra"}
FlatDicts == {PyDict(m) : m \in PartialMaps(SampleKeys, SampleFieldValues)}
FlatLists == {PyList(q) : q \in SeqsUpTo(SampleFieldValues, MaxListLen)}
\* a well-formed account record of the server, and its one-point defects
RawAccount(id) ==
  [id |-> PyStr(id),
   created_date |-> PyStr("2020-10-08T02:18:07.346849Z"),
   modified_date |-> PyStr("2020-10-08T02:18:07.346849Z"),
   account_number |-> PyStr("a37e2836805975f334108b55523634c995bd2a4db610062f404510617e83126f"),
   trust |-> PyStr("2.38")]
Without(m, k) == [j \in (DOMAIN m) \ {k} |-> m[j]]
With(m, k, v) == [j \in (DOMAIN m) \cup {k} |-> IF j = k THEN v ELSE m[j]]
RawAccountVariants ==
  LET m == RawAccount("x") IN
  {PyDict(m)}
  \cup {PyDict(Without(m, k)) : k \in DOMAIN m}
  \cup {PyDict(With(m, k, v)) : k \in DOMAIN m, v \in {PyNone, PyStr("x")}}
  \cup {PyDict(With(m, k, PyStr("X"))) : k \in {"extra", "bank_id"}}
NestedData ==
  {PyDict([id |-> PyStr("x"), trust |-> v]) : v \in FlatLists \cup {PyDict(NoKw)}}
  \cup {PyList(<<d>>) : d \in {PyDict(NoKw), PyDict([id |-> PyStr("x")]),
                              PyDict([id |-> PyInt(1)]), PyDict(RawAccount("x"))}}
\* lists of strings that float() converts
FloatLists == {PyList(q) : q \in SeqsUpTo({PyStr("0.00"), PyStr("2.38")}, MaxListLen)}
\* a list one element longer than every two-item list specification
LongList == PyList(<<PyStr("x"), PyInt(1), PyInt(1)>>)
SampleData ==
  SampleScalars \cup FlatDicts \cup FlatLists \cup FloatLists \cup {LongList}
  \cup RawAccountVariants \cup NestedData

LeafSpecs ==
  {Ellipsis, Ignore, PyInt(1), PyNone, PyType("int"), PyType("str"),
   PyFunction("_parse_iso8601_utc"),
   Type("int", TRUE), Type("int", FALSE), Type("str", TRUE), Type("bool", TRUE)}
FieldSpecs ==
  {PyType("str"), PyType("int"), Maybe(PyType("int")), Key("float")}
DictSpecs ==
  {SpecDict(<<"id">>, [id |-> a]) : a \in FieldSpecs}
  \cup {SpecDict(<<"id", "trust">>, [id |-> a, trust |-> b]) :
          a \in FieldSpecs, b \in FieldSpecs}
ListSpecs ==
  {PyList(<<a>>) : a \in FieldSpecs \cup {Ellipsis}}
  \cup {PyList(<<PyType("str"), b>>) : b \in FieldSpecs}
  \cup {PyList(<<>>)}
WrappedSpecs ==
  {Maybe(a) : a \in LeafSpecs \cup {SpecDict(<<"id">>, [id |-> PyType("str")]),
                                    PyList(<<PyType("int")>>), Key("float")}}
  \cup {Key("float"), Key("URL"), As(PyType("str"), "float", FALSE),
        As(SpecDict(<<"id">>, [id |-> PyType("str")]), "dict", TRUE),
        As(AccountSchema, "Account", TRUE),
        As(PyList(<<PyType("str")>>), "float", TRUE),
        As(As(PyList(<<PyType("str")>>), "float", TRUE), "float", TRUE),
        As(As(PyType("str"), "float", TRUE), "float", TRUE)}
NestedSpecs ==
  {SpecDict(<<"id", "trust">>,
            [id |-> PyType("str"), trust |-> PyList(<<PyType("int")>>)]),
   SpecDict(<<"id", "trust">>,
            [id |-> PyType("str"), trust |-> SpecDict(<<>>, NoKw)]),
   PyList(<<SpecDict(<<"id">>, [id |-> PyType("str")])>>),
   PyList(<<As(AccountSchema, "Account", TRUE)>>),
   AccountSchema}
\* every sample specification, as Schema(raw, ignore_extra_keys=flag).resolve()
SampleSchemas ==
  {Schema(raw, flag) :
     raw \in LeafSpecs \cup DictSpecs \cup ListSpecs \cup WrappedSpecs \cup NestedSpecs,
     flag \in BOOLEAN}

(***************************************************************************)
(* State                                                                   *)
(***************************************************************************)
VARIABLES
  schema,     \* engine: the Validator under test
  data,       \* engine: the input handed to it
  is_ok,      \* engine: what schema.validate(data) returned or raised
  result,     \* engine: what schema.transform(data) returned or raised
  types,      \* ArgsManager.types
  tmp,        \* ArgsManager.tmp
  scopes,     \* the with ArgsManager.temp(...) blocks now open, outermost
              \* first: the target and the keyword arguments of each
  pages,      \* server: the results of each page, pages chained by next links
  limit,      \* PaginatedResponse.limit
  _params,    \* PaginatedResponse._params
  _offset,    \* PaginatedResponse._offset
  _num_records,
  _total,
  _count,
  _next,
  _previous,
  _data,      \* the buffer: the items decoded from the most recent page
  _current,   \* the position in the buffer
  pc,         \* where the consumer of the cursor is: "idle", or "request"
              \* while next() is suspended in await self._client.request(...)
  request,    \* the request next() issued last: its url and its params
  outcome,    \* what the last completed next() returned or raised
  entry,      \* the cursor's fields as they were when the last next() began
  yielded,    \* every item next() has returned, in order
  flat,        \* the flatten() call in progress or completed last
  paginator,  \* the queue-based PaginatedResponse (common.py): its fields
  fetches,    \* the pages whose envelope the queue-based cursor decoded
  asked,      \* the limit Bank.fetch_accounts was called with
  _accounts,  \* InternalState._accounts
  _nodes,     \* InternalState._nodes: node identifier -> object
  heap,       \* the Bank and Validator objects, by identity
  calls,      \* the create_bank calls that returned: identifier, object
  cursors     \* two PaginatedResponse objects consumed by two tasks: the
              \* fields of each and where its task is

\* no call made yet
Unset == [t |-> "unset"]

engineVars == <<schema, data, is_ok, result>>
registryVars == <<types, tmp, scopes>>
cursorFields ==
  <<limit, _params, _offset, _num_records, _total, _count, _next, _previous,
    _data, _current>>
cursorVars ==
  <<pages, cursorFields, pc, request, outcome, entry, yielded, flat, cursors>>
queueVars == <<paginator, fetches, asked, _accounts>>
stateVars == <<_nodes, heap, calls>>
vars == <<engineVars, registryVars, cursorVars, queueVars, stateVars>>

\* ArgsManager as the class body leaves it: types = {}, tmp = []
RegistryInit == types = NoKw /\ tmp = <<>> /\ scopes = <<>>

\* no cursor has been constructed
NoCursor ==
  /\ pages = <<>> /\ limit = 0 /\ _params = PyNone /\ _offset = PyInt(0)
  /\ _num_records = 0 /\ _total = 0 /\ _count = 0
  /\ _next = PyNone /\ _previous = PyNone /\ _data = <<>> /\ _current = 0
  /\ pc = "idle" /\ request = Unset /\ outcome = Unset /\ entry = Unset
  /\ yielded = <<>> /\ flat = Unset
  /\ cursors = Unset
\* no queue-based cursor has been constructed
NoQueue ==
  paginator = Unset /\ fetches = <<>> /\ asked = PyNone /\ _accounts = NoKw
\* InternalState.__init__: the caches are empty
NoState == _nodes = NoKw /\ heap = <<>> /\ calls = <<>>
\* no engine call is under test
NoEngine == schema = Unset /\ data = Unset /\ is_ok = Unset /\ result = Unset

(***************************************************************************)
(* EngineSpec: validate and transform as pure entry points, on every       *)
(* sample specification and every sample input, with no scope open.        *)
(***************************************************************************)
EngineInit ==
  /\ schema \in SampleSchemas
  /\ data \in SampleData
  /\ is_ok = Unset
  /\ result = Unset
  /\ RegistryInit
  /\ NoCursor
  /\ NoQueue
  /\ NoState

\* schema.validate(data)
CallValidate ==
  /\ is_ok = Unset
  /\ is_ok' = Validate(schema, data, types)
  /\ UNCHANGED <<schema, data, result, registryVars, cursorVars, queueVars, stateVars>>

\* schema.transform(data)
CallTransform ==
  /\ result = Unset
  /\ result' = Transform(schema, data, types)
  /\ UNCHANGED <<schema, data, is_ok, registryVars, cursorVars, queueVars, stateVars>>

EngineNext == CallValidate \/ CallTransform

EngineSpec == EngineInit /\ [][EngineNext]_vars

(***************************************************************************)
(* Claims about the engine (checked under EngineSpec)                      *)
(***************************************************************************)
IsDictSchema(s) == s.kind = "Schema" /\ s.validator.t = "dict"
SpecKeys(s) == {s.validator.keys[i] : i \in DOMAIN s.validator.keys}
\* the keys the specification requires: those not wrapped in Maybe
RequiredKeys(s) == {k \in SpecKeys(s) : s.validator.m[k].kind # "Maybe"}
Validated == is_ok # Unset
Transformed == result # Unset
\* a dict specification applied to a mapping
DictCase == IsDictSchema(schema) /\ data.t = "dict"
\* every field of the specification that the mapping holds is valid
PresentFieldsValid ==
  \A k \in SpecKeys(schema) \cap DOMAIN data.m :
     /\ Validate(schema.validator.m[k], data.m[k], types) = PyBool(TRUE)
     /\ ~IsRaise(Transform(schema.validator.m[k], data.m[k], types))

\* C1: whenever schema.validate(data) returned True, schema.transform(data)
\* returns a result and does not raise.
C1_ValidateImpliesTransform ==
  (is_ok = PyBool(TRUE) /\ Transformed) => ~IsRaise(result)

EarlierFieldsTransform ==
  LET keys == schema.validator.keys
      missing == {i \in DOMAIN keys : keys[i] \notin DOMAIN data.m}
      first == CHOOSE i \in missing : \A j \in missing : i <= j
  IN  \A j \in 1..(first - 1) :
        ~IsRaise(Transform(schema.validator.m[keys[j]], data.m[keys[j]], types))

C6_ValidateRejectsMissingKey ==
  (DictCase /\ is_ok = PyBool(TRUE)) => RequiredKeys(schema) \subseteq DOMAIN data.m

\* C7: a mapping holding a key the dict specification does not name is
\* rejected (validate False, transform raises) when ignore_extra_keys is not
\* set, and accepted (validate True, transform returns) when it is set and the
\* named fields are all present and valid.
C7_ExtraKeysFollowFlag ==
  (DictCase /\ (DOMAIN data.m) \ SpecKeys(schema) # {})
     => IF ~schema.kwargs.ignore_extra_keys
        THEN /\ Validated => is_ok = PyBool(FALSE)
             /\ Transformed => IsRaise(result)
        ELSE (SpecKeys(schema) \subseteq DOMAIN data.m /\ PresentFieldsValid)
               => /\ Validated => is_ok = PyBool(TRUE)
                  /\ Transformed => ~IsRaise(result)

\* C8: a mapping that omits only keys whose field is wrapped in Maybe, every
\* other field present and valid, is accepted by validate and by transform;
\* a mapping that omits a field not wrapped in Maybe is not.
C8_MaybeFieldNotRequired ==
  (DictCase /\ SpecKeys(schema) \ DOMAIN data.m # {} /\ PresentFieldsValid)
     => IF RequiredKeys(schema) \subseteq DOMAIN data.m
        THEN /\ Validated => is_ok = PyBool(TRUE)
             /\ Transformed => ~IsRaise(result)
        ELSE Transformed => IsRaise(result)

\* C9: Maybe(s) on None validates True and transforms to None whatever s is;
\* on any other input it returns exactly what s returns or raises.
C9_MaybeShortCircuitsNone ==
  schema.kind = "Maybe"
     => IF data = PyNone
        THEN /\ Validated => is_ok = PyBool(TRUE)
             /\ Transformed => result = PyNone
        ELSE /\ Validated => is_ok = Validate(schema.validator, data, types)
             /\ Transformed => result = Transform(schema.validator, data, types)

\* C9 witness: Maybe(s) has accepted None and transformed it to None for an s
\* that itself rejects None.
C9_Witness ==
  /\ schema.kind = "Maybe" /\ data = PyNone
  /\ is_ok = PyBool(TRUE) /\ result = PyNone
  /\ Validate(schema.validator, PyNone, types) = PyBool(FALSE)
  /\ IsRaise(Transform(schema.validator, PyNone, types))

\* a list specification of one item specification, applied to a list
ListCase ==
  /\ schema.kind = "Schema" /\ schema.validator.t = "list"
  /\ Len(schema.validator.s) = 1
  /\ data.t = "list"
\* itemSpec.transform(input[i]) for every i
ItemResults ==
  [i \in DOMAIN data.s |-> Transform(schema.validator.s[1], data.s[i], types)]

\* C17: transform of a homogeneous list specification [itemSpec] on a list of
\* n elements whose elements all convert returns the list of n elements whose
\* element i is itemSpec.transform(input[i]); when an element does not
\* convert it raises what the first such element raises.
C17_ListTransformsEachElement ==
  (ListCase /\ Transformed)
     => IF \E i \in DOMAIN data.s : IsRaise(ItemResults[i])
        THEN result = ItemResults[CHOOSE i \in DOMAIN data.s :
                         /\ IsRaise(ItemResults[i])
                         /\ \A j \in 1..(i - 1) : ~IsRaise(ItemResults[j])]
        ELSE result = PyList(ItemResults)

\* C17 witness: [As(str, float)] has turned two different strings into the
\* list of their two floats, in order.
C17_Witness ==
  /\ ListCase /\ schema.validator.s[1].kind = "As"
  /\ data = PyList(<<PyStr("0.00"), PyStr("2.38")>>)
  /\ result = PyList(<<PyFloat(0), PyFloat(238)>>)

\* C18: whenever schema.transform(data) returned a result without raising,
\* schema.validate(data) returns True.
C18_TransformImpliesValidate ==
  (Transformed /\ ~IsRaise(result) /\ Validated) => is_ok = PyBool(TRUE)

\* a Type validator applied to a value
TypeCase == schema.kind = "Type" /\ Transformed /\ Validated
\* the values the check is to accept: in strict mode those whose runtime
\* type is the expected type itself, else every instance of it
TypeAccepts ==
  IF schema.is_strict THEN data.t = schema.validator
  ELSE IsInstance(data, schema.validator)

\* C26: Type(T) accepts exactly the values of runtime type T in strict mode
\* (a value of a proper subclass is rejected with TypeMismatch) and exactly
\* the instances of T or of a subclass of T otherwise; validate agrees.
C26_TypeCheckAcceptsByRuntimeType ==
  TypeCase =>
    IF TypeAccepts THEN result = data /\ is_ok = PyBool(TRUE)
    ELSE result = VTE("TypeMismatch") /\ is_ok = PyBool(FALSE)

\* a list specification of two or more item specifications, applied to a list
HeterogeneousCase ==
  /\ schema.kind = "Schema" /\ schema.validator.t = "list"
  /\ Len(schema.validator.s) >= 2
  /\ data.t = "list"
  /\ Transformed /\ Validated

\* C28: a list specification of n >= 2 item specifications accepts only
\* lists of exactly n elements: on a shorter or longer list validate returns
\* False and transform raises, and a transform that succeeds returns n
\* elements, element i converted by item specification i.
C28_HeterogeneousListHasExactLength ==
  HeterogeneousCase =>
    LET validator == schema.validator.s IN
    IF Len(data.s) # Len(validator)
    THEN is_ok = PyBool(FALSE) /\ IsRaise(result)
    ELSE ~IsRaise(result) =>
           /\ result.t = "list" /\ Len(result.s) = Len(validator)
           /\ \A i \in DOMAIN validator :
                 result.s[i] = Transform(validator[i], data.s[i], types)

\* an As validator with unpack_args applied to an input its inner validator
\* converts
ConvertCase ==
  /\ schema.kind = "As" /\ schema.unpack_params
  /\ Transformed
  /\ ~IsRaise(Transform(schema.validator, data, types))

\* C25: As.transform chooses the shape of the call of the target from the
\* shape of the converted value (a mapping as keyword arguments, a sequence
\* as positional arguments, anything else as one positional argument),
\* whatever the shape of the raw input was.
C25_CallShapeFollowsConvertedValue ==
  ConvertCase =>
    \E new_data \in {Transform(schema.validator, data, types)} :
      result = AsCall(schema, new_data, new_data, <<>>, NoKw)

(***************************************************************************)
(* The server behind the position-based cursor.  It holds a chain of       *)
(* pages; the link to page k carries k - 1 as its offset token, as the     *)
(* links of the bank's limit/offset pagination carry an offset, and the    *)
(* link back to the first page carries none.                               *)
(***************************************************************************)
\* most pages of a server, most records of one page, largest limit
MaxPages == 3
MaxPageLen == 2
MaxLimit == 2

\* Bank.fetch_accounts: page_limit = 50
page_limit == 50

AccountsUrl == "http://bank/accounts"
PageUrl(k) == IF k = 1 THEN AccountsUrl
              ELSE AccountsUrl \o "?offset=" \o ToString(k - 1)
\* URL.query["offset"]
QueryOffset(url) ==
  IF \E k \in 2..(MaxPages + 1) : url.v = PageUrl(k)
  THEN PyStr(ToString((CHOOSE k \in 2..(MaxPages + 1) : url.v = PageUrl(k)) - 1))
  ELSE Raise("KeyError", "offset")

\* the layouts of the server: how many records each page holds
Layouts == UNION {[1..n -> 0..MaxPageLen] : n \in 1..MaxPages}
RECURSIVE SumTo(_, _)
SumTo(sizes, k) == IF k = 0 THEN 0 ELSE sizes[k] + SumTo(sizes, k - 1)
\* the pages of a layout: record i of the server is the account "acct<i>"
PagesOf(sizes) ==
  [k \in DOMAIN sizes |->
     [i \in 1..sizes[k] |->
        PyDict(RawAccount("acct" \o ToString(SumTo(sizes, k - 1) + i)))]]
RECURSIVE Concat(_, _)
Concat(pp, k) == IF k = 0 THEN <<>> ELSE Concat(pp, k - 1) \o pp[k]
AllRecords == Concat(pages, Len(pages))

\* the page a request asks for, by the offset the request carries
PageOf(req) ==
  LET off == req.params["offset"] IN
  IF off.t = "int" THEN off.v + 1
  ELSE (CHOOSE k \in 1..(MaxPages + 1) : ToString(k - 1) = off.v)

\* the page envelope of page k
Envelope(k) ==
  PyDict([count |-> PyInt(Len(AllRecords)),
          next |-> IF k < Len(pages) THEN PyStr(PageUrl(k + 1)) ELSE PyNone,
          previous |-> IF k > 1 THEN PyStr(PageUrl(k - 1)) ELSE PyNone,
          results |-> PyList(pages[k])])
\* bodies that do not decode: a non-JSON text, and page k with its first
\* record lacking a field
Malformed(k) ==
  {PyStr("<html>")}
  \cup (IF Len(pages[k]) = 0 THEN {}
        ELSE {PyDict(With(Envelope(k).m, "results",
                PyList([pages[k] EXCEPT ![1] = PyDict(Without(pages[k][1].m, "trust"))])))})

(***************************************************************************)
(* PaginatedResponse (models/__init__.py), as Bank.fetch_accounts builds   *)
(* it: result_schema = AccountSchema, type_ = Account,                     *)
(* extra = dict(bank_id=self.node_identifier).                             *)
(***************************************************************************)
node_identifier == [t |-> "bytes", v |-> "bank-nid"]
extra_args == [bank_id |-> node_identifier]
result_type == "Account"
\* payload of Bank.fetch_accounts, with its default offset and ordering
payload ==
  PyDict([offset |-> PyInt(0), limit |-> PyInt(page_limit),
          ordering |-> PyStr("created_date")])

\* PAGINATOR_BASE with results = [As(result_schema, type_)], resolved
PaginatorSchema ==
  Schema(SpecDict(<<"count", "next", "previous", "results">>,
                  [count |-> PyType("int"), next |-> Maybe(Url),
                   previous |-> Maybe(Url),
                   results |-> PyList(<<As(AccountSchema, result_type, TRUE)>>)]),
         FALSE)

\* ArgsManager.temp(type_, *args, **kwargs) and ArgsManager.__exit__
ArgsManager_temp(reg, type_, args, kwargs) ==
  [types |-> register_type(reg.types, type_, args, kwargs),
   tmp |-> Append(reg.tmp, type_)]
\* mutant of ArgsManager_exit: the entry is cleared and the stack left alone
ArgsManager_exit_NoPop(reg) ==
  [types |-> clear_type(reg.types, reg.tmp[Len(reg.tmp)]), tmp |-> reg.tmp]
ArgsManager_exit(reg) ==
  [types |-> clear_type(reg.types, reg.tmp[Len(reg.tmp)]),
   tmp |-> SubSeq(reg.tmp, 1, Len(reg.tmp) - 1)]

IteratorEmpty == Raise("IteratorEmpty", "")
Fields ==
  [limit |-> limit, _params |-> _params, _offset |-> _offset,
   _num_records |-> _num_records, _total |-> _total, _count |-> _count,
   _next |-> _next, _previous |-> _previous, _data |-> _data, _current |-> _current]

FlatRunning == flat.t = "flatten" /\ flat.state = "running"
\* mutant of Finish: flatten() puts each item in front of those it holds
Finish_Prepend(val) ==
  /\ outcome' = val
  /\ yielded' = IF IsRaise(val) THEN yielded ELSE Append(yielded, val)
  /\ flat' = IF ~FlatRunning THEN flat
             ELSE IF val = IteratorEmpty THEN [flat EXCEPT !.state = "returned"]
             ELSE IF IsRaise(val) THEN [flat EXCEPT !.state = "raised"]
             ELSE [flat EXCEPT !.items = <<val>> \o @]
\* next() ends returning or raising val; flatten() takes each item its next()
\* returns, ends at IteratorEmpty and passes any other exception on
Finish(val) ==
  /\ outcome' = val
  /\ yielded' = IF IsRaise(val) THEN yielded ELSE Append(yielded, val)
  /\ flat' = IF ~FlatRunning THEN flat
             ELSE IF val = IteratorEmpty THEN [flat EXCEPT !.state = "returned"]
             ELSE IF IsRaise(val) THEN [flat EXCEPT !.state = "raised"]
             ELSE [flat EXCEPT !.items = Append(@, val)]

\* seq[i] of a Python list: a negative index counts from the end
Subscript(seq, i) ==
  IF 0 <= i /\ i < Len(seq) THEN seq[i + 1]
  ELSE IF i < 0 /\ -i <= Len(seq) THEN seq[Len(seq) + i + 1]
  ELSE Raise("IndexError", "list index out of range")

\* mutant of Exhausted: the limit is not looked at
Exhausted_IgnoresLimit == _next = PyNone /\ _current >= _count
\* the condition of line 218
Exhausted ==
  \/ _next = PyNone /\ _current >= _count
  \/ limit # 0 /\ _num_records = limit

CursorInit ==
  /\ \E sizes \in Layouts : pages = PagesOf(sizes)
  /\ limit \in 0..MaxLimit
  /\ _params = payload
  /\ _offset = PyInt(0)
  /\ _num_records = 0 /\ _total = 0 /\ _count = 0
  /\ _next = [t |-> "URL", v |-> AccountsUrl]
  /\ _previous = PyNone
  /\ _data = <<>>
  /\ _current = 0
  /\ pc = "idle" /\ request = Unset /\ outcome = Unset /\ entry = Unset
  /\ yielded = <<>> /\ flat = Unset
  /\ cursors = Unset
  /\ RegistryInit
  /\ NoEngine
  /\ NoQueue
  /\ NoState

\* next(), line 218-219: nothing left, or the limit reached
NextExhausted ==
  /\ pc = "idle"
  /\ Exhausted
  /\ entry' = Fields
  /\ Finish(IteratorEmpty)
  /\ UNCHANGED <<queueVars, stateVars, engineVars, registryVars, pages, cursors, cursorFields, pc, request>>

\* next(), lines 221-230: check() finds an item at the position
NextBuffered ==
  /\ pc = "idle"
  /\ ~Exhausted
  /\ _current < _count
  /\ \E item \in {Subscript(_data, _current)} :
       /\ ~IsRaise(item)
       /\ Truthy(item)
       /\ Finish(item)
  /\ entry' = Fields
  /\ _current' = _current + 1
  /\ _num_records' = _num_records + 1
  /\ UNCHANGED <<queueVars, stateVars, engineVars, registryVars, pages, cursors, limit, _params, _offset, _total,
                 _count, _next, _previous, _data, pc, request>>

\* mutant of NextRequest: the request is issued without looking at the buffer
NextRequest_SkipsCheck ==
  /\ pc = "idle"
  /\ ~Exhausted
  /\ entry' = Fields
  /\ UNCHANGED <<_current, _num_records>>
  /\ IF Truthy(_params)
     THEN /\ request' = [url |-> _next, params |-> With(_params.m, "offset", _offset)]
          /\ _params' = PyNone
     ELSE /\ request' = [url |-> _next, params |-> [offset |-> _offset]]
          /\ _params' = _params
  /\ pc' = "request"
  /\ UNCHANGED <<queueVars, stateVars, engineVars, registryVars, pages, cursors, limit, _offset, _total, _count,
                 _next, _previous, _data, outcome, yielded, flat>>
\* next(), lines 232-242: check() returned nothing (or an item that is
\* falsy, which it has consumed): the request is issued and next() suspends
NextRequest ==
  /\ pc = "idle"
  /\ ~Exhausted
  /\ entry' = Fields
  /\ IF _current < _count
     THEN /\ \E item \in {Subscript(_data, _current)} :
               ~IsRaise(item) /\ ~Truthy(item)
          /\ _current' = _current + 1
          /\ _num_records' = _num_records + 1
     ELSE UNCHANGED <<_current, _num_records>>
  /\ IF Truthy(_params)
     THEN /\ request' = [url |-> _next, params |-> With(_params.m, "offset", _offset)]
          /\ _params' = PyNone
     ELSE /\ request' = [url |-> _next, params |-> [offset |-> _offset]]
          /\ _params' = _params
  /\ pc' = "request"
  /\ UNCHANGED <<queueVars, stateVars, engineVars, registryVars, pages, cursors, limit, _offset, _total, _count,
                 _next, _previous, _data, outcome, yielded, flat>>

\* the awaited request raises: an HTTP error, or the task is cancelled
RequestFails ==
  /\ pc = "request"
  /\ pc' = "idle"
  /\ Finish(Raise("HTTPException", "request failed"))
  /\ UNCHANGED <<queueVars, stateVars, engineVars, registryVars, pages, cursors, cursorFields, request, entry>>

\* transform(self.schema, body) inside ArgsManager.temp(result_type, **extra_args)
Decode(body) ==
  transform(PaginatorSchema, body,
            ArgsManager_temp([types |-> types, tmp |-> tmp],
                             result_type, <<>>, extra_args).types)
\* the registry once the with block has been left
AfterScope ==
  ArgsManager_exit(ArgsManager_temp([types |-> types, tmp |-> tmp],
                                    result_type, <<>>, extra_args))

\* next(), lines 242-260: the request returns the page and the page decodes
NextDecoded ==
  /\ pc = "request"
  /\ request.url # PyNone
  /\ \E res \in {Decode(Envelope(PageOf(request)))} :
     /\ ~IsRaise(res)
     /\ _total' = res.m["count"].v
     /\ _next' = res.m["next"]
     /\ _previous' = res.m["previous"]
     /\ _data' = res.m["results"].s
     /\ _count' = Len(res.m["results"].s)
     /\ LET off == IF Truthy(res.m["next"]) THEN QueryOffset(res.m["next"]) ELSE PyInt(0)
            buf == res.m["results"].s
        IN IF IsRaise(off)
           THEN /\ _current' = 0
                /\ UNCHANGED <<_offset, _num_records>>
                /\ Finish(off)
           ELSE /\ _offset' = off
                /\ IF Len(buf) > 0
                   THEN /\ _current' = 1
                        /\ _num_records' = _num_records + 1
                        /\ Finish(IF Truthy(buf[1]) THEN buf[1] ELSE IteratorEmpty)
                   ELSE /\ _current' = 0
                        /\ _num_records' = _num_records
                        /\ Finish(IteratorEmpty)
  /\ types' = AfterScope.types
  /\ tmp' = AfterScope.tmp
  /\ scopes' = scopes
  /\ pc' = "idle"
  /\ UNCHANGED <<queueVars, stateVars, engineVars, pages, cursors, limit, _params, request, entry>>

\* next(), lines 242-245: the request returns a body that transform rejects
NextDecodeFails ==
  /\ pc = "request"
  /\ request.url # PyNone
  /\ \E body \in Malformed(PageOf(request)) :
     \E res \in {Decode(body)} :
       /\ IsRaise(res)
       /\ Finish(res)
  /\ types' = AfterScope.types
  /\ tmp' = AfterScope.tmp
  /\ scopes' = scopes
  /\ pc' = "idle"
  /\ UNCHANGED <<queueVars, stateVars, engineVars, pages, cursors, cursorFields, request, entry>>

\* flatten(): [t async for t in self] starts
FlattenCall ==
  /\ pc = "idle"
  /\ ~FlatRunning
  /\ flat' = [t |-> "flatten", state |-> "running", fresh |-> (entry = Unset),
              items |-> <<>>]
  /\ UNCHANGED <<queueVars, stateVars, engineVars, registryVars, pages, cursors, cursorFields, pc, request,
                 outcome, entry, yielded>>

CursorNext ==
  \/ NextExhausted
  \/ NextBuffered
  \/ NextRequest
  \/ RequestFails
  \/ NextDecoded
  \/ NextDecodeFails
  \/ FlattenCall

CursorSpec == CursorInit /\ [][CursorNext]_vars

(***************************************************************************)
(* Claims about the position-based cursor (checked under CursorSpec)       *)
(***************************************************************************)
\* every page of the server holds a record
NoEmptyPage == \A k \in DOMAIN pages : Len(pages[k]) > 0
\* the last next() failed: its fetch or its decode raised
CallFailed == pc = "idle" /\ IsRaise(outcome) /\ outcome # IteratorEmpty
\* the ids of the accounts in a sequence of items, of records
ItemIds(items) == [i \in DOMAIN items |-> items[i].id.v]
RecordIds(records) == [i \in DOMAIN records |-> records[i].m["id"].v]

\* C2: with limit L > 0 over a server holding at least L records, the items
\* next() has returned are never more than L, and are the first records of
\* the server in order; while fewer than L have been returned the cursor is
\* not exhausted, and over pages that each hold a record no call has
\* signalled exhaustion; once L have been returned no request is in flight
\* and the cursor is exhausted, so every later next() raises IteratorEmpty
\* without a fetch, also when the server holds more.
C2_LimitBoundsItems ==
  (limit > 0 /\ Len(AllRecords) >= limit)
     => /\ Len(yielded) <= limit
        /\ ItemIds(yielded) = RecordIds(SubSeq(AllRecords, 1, Len(yielded)))
        /\ (Len(yielded) < limit /\ pc = "idle") => ~Exhausted
        /\ (Len(yielded) < limit /\ NoEmptyPage) => outcome # IteratorEmpty
        /\ Len(yielded) = limit => pc = "idle" /\ Exhausted

\* C2 witness: limit 2 over a server of more than two records: two items
\* returned, the third call has raised IteratorEmpty with a next link left.
C2_Witness ==
  /\ limit = 2 /\ Len(AllRecords) > 2
  /\ Len(yielded) = 2 /\ outcome = IteratorEmpty
  /\ _next # PyNone

\* C3: after a next() whose fetch or decode failed, every field of the
\* cursor (buffer, position, links, counts, held query parameters) is what it
\* was when the call began.
C3_FailedCallLeavesCursor ==
  CallFailed => Fields = entry

\* C4: flatten() on a fresh cursor with no limit, over pages that each hold a
\* record, returns the records of all pages in page order and in server order
\* within a page, each once; the cursor is then exhausted, so a next() after
\* it raises IteratorEmpty.
C4_FlattenConcatenatesPages ==
  (flat.t = "flatten" /\ flat.fresh /\ flat.state = "returned"
     /\ limit = 0 /\ NoEmptyPage)
     => /\ ItemIds(flat.items) = RecordIds(AllRecords)
        /\ pc = "idle" /\ Exhausted

\* C4 witness: flatten() has returned four items or more from three pages,
\* and the next() after it has raised IteratorEmpty.
C4_Witness ==
  /\ flat.t = "flatten" /\ flat.fresh /\ flat.state = "returned"
  /\ limit = 0 /\ NoEmptyPage /\ Len(pages) = 3
  /\ Len(flat.items) >= 4
  /\ Len(yielded) = Len(flat.items)
  /\ entry._next = PyNone /\ outcome = IteratorEmpty

\* a call of next() begins in this step
NextBegins == NextExhausted \/ NextBuffered \/ NextRequest

\* the limit has been reached
LimitReached == limit # 0 /\ _num_records = limit

C24_ExhaustionIsFinal ==
  [][ (pc = "idle" /\ outcome = IteratorEmpty)
         => (pc' = "idle" /\ outcome' = IteratorEmpty) ]_vars

(***************************************************************************)
(* BidirSpec: one caller steps the cursor of Bank.fetch_accounts forward   *)
(* with next() and backward with previous(), in any order.  pc is          *)
(* "previous_request" while previous() is suspended in its request.        *)
(***************************************************************************)
\* previous() is called only while fewer items than this have been returned
MaxReturned == 3

\* the condition of line 263
PreviousExhausted ==
  \/ _previous = PyNone /\ _current < 0
  \/ limit # 0 /\ _num_records = limit
\* the test of check() in previous(), line 267
InBuffer == 0 <= _current /\ _current <= _count - 1

\* next(), lines 222-223: check() reads the buffer at a position that the
\* list does not have
NextIndexError ==
  /\ pc = "idle"
  /\ ~Exhausted
  /\ _current < _count
  /\ \E item \in {Subscript(_data, _current)} :
       /\ IsRaise(item)
       /\ Finish(item)
  /\ entry' = Fields
  /\ UNCHANGED <<queueVars, stateVars, engineVars, registryVars, pages, cursors, cursorFields, pc, request>>

\* previous(), lines 263-264: nothing before the buffer, or the limit reached
PrevExhausted ==
  /\ pc = "idle"
  /\ PreviousExhausted
  /\ entry' = Fields
  /\ Finish(IteratorEmpty)
  /\ UNCHANGED <<queueVars, stateVars, engineVars, registryVars, pages, cursors, cursorFields, pc, request>>

\* previous(), lines 266-275: check() finds an item at the position
PrevBuffered ==
  /\ pc = "idle"
  /\ Len(yielded) < MaxReturned
  /\ ~PreviousExhausted
  /\ InBuffer
  /\ Truthy(_data[_current + 1])
  /\ entry' = Fields
  /\ _current' = _current - 1
  /\ _num_records' = _num_records + 1
  /\ Finish(_data[_current + 1])
  /\ UNCHANGED <<queueVars, stateVars, engineVars, registryVars, pages, cursors, limit, _params, _offset, _total,
                 _count, _next, _previous, _data, pc, request>>

\* previous(), lines 277-288: check() returned nothing (or an item that is
\* falsy, which it has consumed): the request for self._previous is issued
\* and previous() suspends
PrevRequest ==
  /\ pc = "idle"
  /\ Len(yielded) < MaxReturned
  /\ ~PreviousExhausted
  /\ entry' = Fields
  /\ IF InBuffer
     THEN /\ ~Truthy(_data[_current + 1])
          /\ _current' = _current - 1
          /\ _num_records' = _num_records + 1
     ELSE UNCHANGED <<_current, _num_records>>
  /\ IF Truthy(_params)
     THEN /\ request' = [url |-> _previous, params |-> With(_params.m, "offset", _offset)]
          /\ _params' = PyNone
     ELSE /\ request' = [url |-> _previous, params |-> [offset |-> _offset]]
          /\ _params' = _params
  /\ pc' = "previous_request"
  /\ UNCHANGED <<queueVars, stateVars, engineVars, registryVars, pages, cursors, limit, _offset, _total, _count,
                 _next, _previous, _data, outcome, yielded, flat>>

\* the request of previous() raises: the client was handed None for a URL,
\* an HTTP error, or the task is cancelled
PrevRequestFails ==
  /\ pc = "previous_request"
  /\ pc' = "idle"
  /\ Finish(IF request.url = PyNone
            THEN TypeError("Constructor parameter should be str")
            ELSE Raise("HTTPException", "request failed"))
  /\ UNCHANGED <<queueVars, stateVars, engineVars, registryVars, pages, cursors, cursorFields, request, entry>>

\* previous(), lines 288-306: the request returns the page and the page
\* decodes
PrevDecoded ==
  /\ pc = "previous_request"
  /\ request.url # PyNone
  /\ \E res \in {Decode(Envelope(PageOf(request)))} :
     /\ ~IsRaise(res)
     /\ _total' = res.m["count"].v
     /\ _next' = res.m["next"]
     /\ _previous' = res.m["previous"]
     /\ _data' = res.m["results"].s
     /\ _count' = Len(res.m["results"].s)
     /\ LET off == IF Truthy(res.m["previous"]) THEN QueryOffset(res.m["previous"])
                   ELSE PyInt(0)
            buf == res.m["results"].s
        IN IF IsRaise(off)
           THEN /\ _current' = Len(buf) - 1
                /\ UNCHANGED <<_offset, _num_records>>
                /\ Finish(off)
           ELSE /\ _offset' = off
                /\ IF Len(buf) > 0
                   THEN /\ _current' = Len(buf) - 2
                        /\ _num_records' = _num_records + 1
                        /\ Finish(IF Truthy(buf[Len(buf)]) THEN buf[Len(buf)]
                                  ELSE IteratorEmpty)
                   ELSE /\ _current' = -1
                        /\ _num_records' = _num_records
                        /\ Finish(IteratorEmpty)
  /\ types' = AfterScope.types
  /\ tmp' = AfterScope.tmp
  /\ scopes' = scopes
  /\ pc' = "idle"
  /\ UNCHANGED <<queueVars, stateVars, engineVars, pages, cursors, limit, _params, request, entry>>

\* previous(), lines 288-291: the request returns a body that transform
\* rejects
PrevDecodeFails ==
  /\ pc = "previous_request"
  /\ request.url # PyNone
  /\ \E body \in Malformed(PageOf(request)) :
     \E res \in {Decode(body)} :
       /\ IsRaise(res)
       /\ Finish(res)
  /\ types' = AfterScope.types
  /\ tmp' = AfterScope.tmp
  /\ scopes' = scopes
  /\ pc' = "idle"
  /\ UNCHANGED <<queueVars, stateVars, engineVars, pages, cursors, cursorFields, request, entry>>

BidirNext ==
  \/ NextExhausted
  \/ NextBuffered
  \/ NextIndexError
  \/ NextRequest
  \/ RequestFails
  \/ NextDecoded
  \/ NextDecodeFails
  \/ PrevExhausted
  \/ PrevBuffered
  \/ PrevRequest
  \/ PrevRequestFails
  \/ PrevDecoded
  \/ PrevDecodeFails

BidirSpec == CursorInit /\ [][BidirNext]_vars

(***************************************************************************)
(* Claims about stepping backward (checked under BidirSpec)                *)
(***************************************************************************)
\* a call of previous() begins in this step
PrevBegins == PrevExhausted \/ PrevBuffered \/ PrevRequest

\* C22: whenever the previous link is null and the buffer holds no item at
\* the position (as on a fresh cursor, and after next() has consumed a whole
\* first page), previous() raises IteratorEmpty without a request; previous()
\* never issues a request for a null link.
C22_PreviousStopsAtNullLink ==
  [][ /\ (PrevBegins /\ _previous = PyNone /\ ~InBuffer)
         => (pc' = "idle" /\ outcome' = IteratorEmpty)
      /\ pc' = "previous_request" => request'.url # PyNone ]_vars

\* C30: whenever next() returns an item, the position it read the buffer at
\* was one the buffer has, 0 <= position < length, and the item is the
\* element there; next() never reads the buffer through a position that
\* previous() left negative or out of range.
C30_NextReadsInsideBuffer ==
  [][ (NextBuffered \/ NextIndexError)
         => (0 <= _current /\ _current < Len(_data)
             /\ outcome' = _data[_current + 1]) ]_vars

(***************************************************************************)
(* TasksSpec: two tasks each consume a cursor of their own, built by       *)
(* fetch_accounts of two banks, on one event loop.  A task runs until it   *)
(* suspends in await self._client.request(...) of next() or its next()     *)
(* returns; the other task may run in between.  Both cursors decode into   *)
(* Account through the one ArgsManager registry.  The two banks list the   *)
(* same accounts.                                                          *)
(***************************************************************************)
\* most pages of the server the two tasks read
MaxTaskPages == 2

CursorIds == {"X", "Y"}
\* Bank.node_identifier of the bank each cursor was built by
BankOf(c) == [t |-> "bytes", v |-> "bank-" \o c]
\* mutant of ExtraOf: both cursors hold the first bank's identifier
ExtraOf_FirstBank(c) == [bank_id |-> BankOf("X")]
\* extra = dict(bank_id=self.node_identifier), line 153
ExtraOf(c) == [bank_id |-> BankOf(c)]

\* PaginatedResponse.__init__ as Bank.fetch_accounts of bank c calls it
NewCursor(c) ==
  [extra_args |-> ExtraOf(c), limit |-> 0, _params |-> payload,
   _offset |-> PyInt(0), _num_records |-> 0, _total |-> 0, _count |-> 0,
   _next |-> [t |-> "URL", v |-> AccountsUrl], _previous |-> PyNone,
   _data |-> <<>>, _current |-> 0,
   pc |-> "idle", request |-> Unset, outcome |-> Unset, yielded |-> <<>>]

TasksInit ==
  /\ \E sizes \in Layouts : Len(sizes) <= MaxTaskPages /\ pages = PagesOf(sizes)
  /\ cursors = [c \in CursorIds |-> NewCursor(c)]
  /\ limit = 0 /\ _params = PyNone /\ _offset = PyInt(0)
  /\ _num_records = 0 /\ _total = 0 /\ _count = 0
  /\ _next = PyNone /\ _previous = PyNone /\ _data = <<>> /\ _current = 0
  /\ pc = "idle" /\ request = Unset /\ outcome = Unset /\ entry = Unset
  /\ yielded = <<>> /\ flat = Unset
  /\ RegistryInit
  /\ NoEngine
  /\ NoQueue
  /\ NoState

\* what the tasks leave alone
TasksFrame ==
  UNCHANGED <<engineVars, queueVars, stateVars, pages, cursorFields, pc,
              request, outcome, entry, yielded, flat, scopes>>

\* the condition of line 218 on cursor self
ExhaustedOf(self) ==
  \/ self._next = PyNone /\ self._current >= self._count
  \/ self.limit # 0 /\ self._num_records = self.limit

\* cursor self once its next() has ended returning or raising val
Ended(self, val) ==
  [self EXCEPT !.pc = "idle", !.outcome = val,
               !.yielded = IF IsRaise(val) THEN @ ELSE Append(@, val)]

\* next() of cursor c, lines 218-219
TaskNextExhausted(c) ==
  /\ cursors[c].pc = "idle"
  /\ ExhaustedOf(cursors[c])
  /\ cursors' = [cursors EXCEPT ![c] = Ended(@, IteratorEmpty)]
  /\ UNCHANGED <<types, tmp>>
  /\ TasksFrame

\* next() of cursor c, lines 221-230: check() finds an item at the position
TaskNextBuffered(c) ==
  /\ cursors[c].pc = "idle"
  /\ ~ExhaustedOf(cursors[c])
  /\ cursors[c]._current < cursors[c]._count
  /\ \E item \in {Subscript(cursors[c]._data, cursors[c]._current)} :
       /\ Truthy(item)
       /\ cursors' = [cursors EXCEPT ![c] =
                        Ended([@ EXCEPT !._current = @ + 1,
                                        !._num_records = @ + 1], item)]
  /\ UNCHANGED <<types, tmp>>
  /\ TasksFrame

\* next() of cursor c, lines 232-242: check() returned nothing (the items
\* are Account objects, never falsy), the request is issued and the task
\* suspends
TaskNextRequest(c) ==
  /\ cursors[c].pc = "idle"
  /\ ~ExhaustedOf(cursors[c])
  /\ cursors[c]._current >= cursors[c]._count
  /\ cursors' = [cursors EXCEPT ![c] =
       [@ EXCEPT !.pc = "request",
                 !.request =
                    IF Truthy(cursors[c]._params)
                    THEN [url |-> cursors[c]._next,
                          params |-> With(cursors[c]._params.m, "offset",
                                          cursors[c]._offset)]
                    ELSE [url |-> cursors[c]._next,
                          params |-> [offset |-> cursors[c]._offset]],
                 !._params = IF Truthy(@) THEN PyNone ELSE @]]
  /\ UNCHANGED <<types, tmp>>
  /\ TasksFrame

\* the awaited request of cursor c raises
TaskRequestFails(c) ==
  /\ cursors[c].pc = "request"
  /\ cursors' = [cursors EXCEPT ![c] =
                   Ended(@, Raise("HTTPException", "request failed"))]
  /\ UNCHANGED <<types, tmp>>
  /\ TasksFrame

\* with ArgsManager.temp(self.result_type, **self.extra_args): the registry
\* inside the block, lines 244-245
InScope(c) ==
  ArgsManager_temp([types |-> types, tmp |-> tmp], result_type, <<>>,
                   cursors[c].extra_args)

\* next() of cursor c, lines 242-260: the task resumes with the page, which
\* decodes inside the block; the block is left before the next suspension
TaskNextDecoded(c) ==
  /\ cursors[c].pc = "request"
  /\ \E res \in {transform(PaginatorSchema, Envelope(PageOf(cursors[c].request)),
                           InScope(c).types)} :
     /\ ~IsRaise(res)
     /\ \E buf \in {res.m["results"].s},
           off \in {IF Truthy(res.m["next"]) THEN QueryOffset(res.m["next"])
                    ELSE PyInt(0)} :
          cursors' = [cursors EXCEPT ![c] =
            Ended([@ EXCEPT !._total = res.m["count"].v,
                            !._next = res.m["next"],
                            !._previous = res.m["previous"],
                            !._data = buf,
                            !._count = Len(buf),
                            !._offset = IF IsRaise(off) THEN @ ELSE off,
                            !._current = IF IsRaise(off) \/ Len(buf) = 0
                                         THEN 0 ELSE 1,
                            !._num_records = IF IsRaise(off) \/ Len(buf) = 0
                                             THEN @ ELSE @ + 1],
                  IF IsRaise(off) THEN off
                  ELSE IF Len(buf) > 0 /\ Truthy(buf[1]) THEN buf[1]
                  ELSE IteratorEmpty)]
  /\ \E reg \in {ArgsManager_exit(InScope(c))} :
       types' = reg.types /\ tmp' = reg.tmp
  /\ TasksFrame

\* next() of cursor c, lines 242-245: the task resumes with a body that
\* transform rejects; the block is left by the exception
TaskNextDecodeFails(c) ==
  /\ cursors[c].pc = "request"
  /\ \E body \in Malformed(PageOf(cursors[c].request)) :
     \E res \in {transform(PaginatorSchema, body, InScope(c).types)} :
       /\ IsRaise(res)
       /\ cursors' = [cursors EXCEPT ![c] = Ended(@, res)]
  /\ \E reg \in {ArgsManager_exit(InScope(c))} :
       types' = reg.types /\ tmp' = reg.tmp
  /\ TasksFrame

TasksNext ==
  \E c \in CursorIds :
    \/ TaskNextExhausted(c)
    \/ TaskNextBuffered(c)
    \/ TaskNextRequest(c)
    \/ TaskRequestFails(c)
    \/ TaskNextDecoded(c)
    \/ TaskNextDecodeFails(c)

TasksSpec == TasksInit /\ [][TasksNext]_vars

\* C23: however the two tasks are interleaved at their requests, every item
\* a cursor has returned carries the bank_id of that cursor's own bank, and
\* at every point where a task can be suspended no block of the registry is
\* open: a block is entered, used for the decode and left within one step.
C23_ItemsCarryOwnBankId ==
  cursors # Unset =>
    /\ tmp = <<>>
    /\ \A c \in CursorIds :
         \A i \in DOMAIN cursors[c].yielded :
            cursors[c].yielded[i].bank_id = BankOf(c)

\* C23 witness: cursor X was suspended in its request while cursor Y decoded
\* a page and returned an item, and X has then returned its own first item:
\* the two hold the same account under different banks.
C23_Witness ==
  /\ cursors # Unset
  /\ Len(cursors["X"].yielded) >= 1 /\ Len(cursors["Y"].yielded) >= 2
  /\ cursors["X"].pc = "request"
  /\ cursors["X"].yielded[1].id = cursors["Y"].yielded[1].id
  /\ cursors["X"].yielded[1].bank_id = BankOf("X")
  /\ cursors["Y"].yielded[1].bank_id = BankOf("Y")

(***************************************************************************)
(* RegistrySpec: callers open and leave with ArgsManager.temp(...) blocks  *)
(* around calls of transform on specifications that hold a conversion to   *)
(* Account at several depths.                                              *)
(***************************************************************************)
\* most with blocks open at once
MaxScopes == 2

\* the targets scopes are opened for, and the bank ids they supply
Targets == {"Account", "dict"}
BankIds == {node_identifier, [t |-> "bytes", v |-> "bank-2"]}

\* specifications that convert to Account, each with an input it accepts:
\* the conversion alone, in a list, in a dict, and in the list of a dict
ConvertCases ==
  LET acct == As(AccountSchema, "Account", TRUE)
      raw(i) == PyDict(RawAccount("acct" \o ToString(i)))
  IN  { <<acct, raw(1)>>,
        <<Schema(PyList(<<acct>>), FALSE), PyList(<<raw(1), raw(2)>>)>>,
        <<Schema(SpecDict(<<"owner">>, [owner |-> acct]), FALSE),
          PyDict([owner |-> raw(1)])>>,
        <<PaginatorSchema,
          PyDict([count |-> PyInt(1), next |-> PyNone, previous |-> PyNone,
                  results |-> PyList(<<raw(1)>>)])>> }

\* a conversion to Account with a record that lacks a field, alone and in a
\* list after a record that converts
FailingCases ==
  LET acct == As(AccountSchema, "Account", TRUE)
      raw(i) == PyDict(RawAccount("acct" \o ToString(i)))
      bad == PyDict(Without(RawAccount("acct3"), "trust"))
  IN  { <<acct, bad>>,
        <<Schema(PyList(<<acct>>), FALSE), PyList(<<raw(1), bad>>)>> }
\* a conversion to dict, which needs no argument besides the converted data
DictCases ==
  { <<As(SpecDict(<<"id">>, [id |-> PyType("str")]), "dict", TRUE),
      PyDict([id |-> PyStr("x")])>> }

\* a conversion to dict of a mapping that holds a bank_id field of its own
ClashCases ==
  { <<As(SpecDict(<<"bank_id">>, [bank_id |-> PyType("str")]), "dict", TRUE),
      PyDict([bank_id |-> PyStr("x")])>>,
    <<As(SpecDict(<<"id", "bank_id">>,
                  [id |-> PyType("str"), bank_id |-> Maybe(PyType("str"))]),
         "dict", TRUE),
      PyDict([id |-> PyStr("x"), bank_id |-> PyNone])>> }

RegistryStartInit ==
  /\ RegistryInit
  /\ NoEngine
  /\ NoCursor
  /\ NoQueue
  /\ NoState

\* with ArgsManager.temp(T, bank_id=X): the block is entered
ScopeEnter ==
  /\ Len(scopes) < MaxScopes
  /\ \E T \in Targets, X \in BankIds :
       \E reg \in {ArgsManager_temp([types |-> types, tmp |-> tmp], T, <<>>,
                                    [bank_id |-> X])} :
          /\ types' = reg.types
          /\ tmp' = reg.tmp
          /\ scopes' = Append(scopes, [type |-> T, kwargs |-> [bank_id |-> X]])
  /\ schema' = Unset /\ data' = Unset /\ is_ok' = Unset /\ result' = Unset
  /\ UNCHANGED <<cursorVars, queueVars, stateVars>>

\* the innermost block is left, at its end or by the exception a transform
\* in it raised, which goes on to the caller: ArgsManager.__exit__
ScopeExit ==
  /\ Len(scopes) > 0
  /\ \E reg \in {ArgsManager_exit([types |-> types, tmp |-> tmp])} :
       /\ types' = reg.types
       /\ tmp' = reg.tmp
  /\ scopes' = SubSeq(scopes, 1, Len(scopes) - 1)
  /\ IF Transformed /\ IsRaise(result)
     THEN UNCHANGED engineVars
     ELSE schema' = Unset /\ data' = Unset /\ is_ok' = Unset /\ result' = Unset
  /\ UNCHANGED <<cursorVars, queueVars, stateVars>>

\* transform(schema, data) is called with the blocks as they are
ScopedTransform ==
  /\ \E c \in ConvertCases \cup FailingCases \cup DictCases \cup ClashCases :
       /\ schema' = c[1]
       /\ data' = c[2]
       /\ is_ok' = Validate(c[1], c[2], types)
       /\ result' = transform(c[1], c[2], types)
  /\ UNCHANGED <<registryVars, cursorVars, queueVars, stateVars>>

RegistryNext == ScopeEnter \/ ScopeExit \/ ScopedTransform

RegistrySpec == RegistryStartInit /\ [][RegistryNext]_vars

(***************************************************************************)
(* Claims about the registry (checked under RegistrySpec)                  *)
(***************************************************************************)
\* the Account instances a converted value holds, at any depth
RECURSIVE AccountsIn(_)
AccountsIn(v) ==
  CASE v.t = "Account" -> {v}
    [] v.t = "list" -> UNION {AccountsIn(v.s[i]) : i \in DOMAIN v.s}
    [] v.t = "dict" -> UNION {AccountsIn(v.m[k]) : k \in DOMAIN v.m}
    [] OTHER -> {}
\* the open blocks for a target, by their place in scopes
ScopesFor(T) == {i \in DOMAIN scopes : scopes[i].type = T}
\* the keyword arguments of the innermost open block for a target
Innermost(T) ==
  scopes[CHOOSE i \in ScopesFor(T) : \A j \in ScopesFor(T) : j <= i].kwargs

\* C10: a transform called while a block for Account is open returns, at
\* every depth of the specification, Account instances whose bank_id is the
\* one the innermost open block for Account supplies, the raw records
\* holding no bank_id.
C10_ScopeSuppliesBankId ==
  (Transformed /\ <<schema, data>> \in ConvertCases /\ ScopesFor("Account") # {})
     => /\ ~IsRaise(result)
        /\ AccountsIn(result) # {}
        /\ \A a \in AccountsIn(result) : a.bank_id = Innermost("Account").bank_id

\* C11: the registry stack holds exactly the targets of the blocks now open,
\* outermost first, whether the transforms called in them returned or
\* raised: every block that has ended has popped the one entry it pushed.
C11_StackMatchesOpenBlocks ==
  /\ Len(tmp) = Len(scopes)
  /\ \A i \in DOMAIN scopes : tmp[i] = scopes[i].type

\* C11 witness: an inner block for Account has been left by the exception a
\* transform raised in it, and the stack is back to the one outer block.
C11_Witness ==
  /\ Len(scopes) = 1 /\ tmp = <<scopes[1].type>>
  /\ "Account" \in DOMAIN types /\ types["Account"] = PyNone
  /\ Transformed /\ <<schema, data>> \in FailingCases
  /\ result = VTE("MissingField")

\* C12: while a block for a target is open, the lookup for the target gives
\* the arguments of the innermost open block for it, also after a block for
\* the same target nested in it has been left.
C12_LookupGivesInnermost ==
  \A T \in Targets :
     ScopesFor(T) # {}
        => /\ has_type(types, T)
           /\ get_args(types, T) = [t |-> "tuple", args |-> <<>>, kwargs |-> Innermost(T)]

\* C13: while no block for a target is open, the lookup reports nothing for
\* it; and while no block at all is open, a transform called now returns or
\* raises what it does with an empty registry: nothing ambient is added and
\* no error comes from the registry.
C13_NoScopeNoArguments ==
  /\ \A T \in Targets : ScopesFor(T) = {} => ~has_type(types, T)
  /\ scopes = <<>> =>
        \A c \in ConvertCases \cup FailingCases \cup DictCases :
           transform(c[1], c[2], types) = transform(c[1], c[2], NoKw)

\* the registry holds keyword arguments for the target of the conversion
\* under test, one of them named as a field of the converted mapping
AmbientClash ==
  /\ Transformed /\ <<schema, data>> \in ClashCases
  /\ has_type(types, schema.transformer)
  /\ types[schema.transformer] # PyNone
  /\ \E new_data \in {Transform(schema.validator, data, types)} :
        /\ new_data.t = "dict"
        /\ (DOMAIN new_data.m) \cap (DOMAIN types[schema.transformer].kwargs) # {}

MaxPageLimit == 2
MaxQueuePages == 2

\* Bank.fetch_accounts, line 241: the payload, with the default offset and
\* ordering
fetch_accounts_payload(n) ==
  PyDict([offset |-> PyInt(0), limit |-> PyInt(n),
          ordering |-> PyStr("created_date")])
\* url.with_query(params)
with_query(url, params) ==
  [t |-> "URL",
   v |-> url.v \o "?offset=" \o ToString(params.m["offset"].v)
         \o "&limit=" \o ToString(params.m["limit"].v)
         \o "&ordering=" \o params.m["ordering"].v]
\* dict(url.query) of a link of the server
url_query(url) == PyDict([offset |-> QueryOffset(url)])
\* the page a URL of the queue-based cursor asks the server for
PageAt(url) ==
  IF \E k \in 2..(MaxPages + 1) : url.v = PageUrl(k)
  THEN CHOOSE k \in 2..(MaxPages + 1) : url.v = PageUrl(k)
  ELSE 1

\* PAGINATOR_BASE of common.py, resolved
PAGINATOR_BASE ==
  Schema(SpecDict(<<"count", "next", "previous", "results">>,
                  [count |-> PyType("int"), next |-> Maybe(Url),
                   previous |-> Maybe(Url), results |-> Ellipsis]),
         FALSE)

\* Account(**kw) of common.py: keyword-only, all six required
Account(kw) ==
  IF DOMAIN kw \ AccountFields # {} THEN TypeError("unexpected keyword argument")
  ELSE IF AccountFields \ DOMAIN kw # {}
       THEN TypeError("missing required keyword-only argument")
  ELSE IF kw["account_number"].t # "VerifyKey"
       THEN TypeError("cannot convert object to bytes")
  ELSE [t |-> "Account",
        id |-> kw["id"], created |-> kw["created_date"],
        modified |-> kw["modified_date"], trust |-> kw["trust"],
        bank_id |-> kw["bank_id"],
        account_number |-> PyStr(kw["account_number"].v),
        _account_number |-> kw["account_number"]]
\* Account._update(**data): self.id = id stores the builtin
Account_update(account, kw) ==
  IF {"created_date", "modified_date", "trust"} \ DOMAIN kw # {}
  THEN TypeError("missing required keyword-only argument")
  ELSE [account EXCEPT !.id = [t |-> "builtin", name |-> "id"],
                       !.created = kw["created_date"],
                       !.modified = kw["modified_date"],
                       !.trust = kw["trust"]]

\* InternalState.create_account(data): the account, and the cache after it
create_account(accounts, kw) ==
  IF {"id", "bank_id"} \ DOMAIN kw # {}
  THEN [val |-> Raise("KeyError", "id"), accounts |-> accounts]
  ELSE LET account_key == <<kw["id"], kw["bank_id"]>> IN
       IF account_key \in DOMAIN accounts
       THEN LET account == Account_update(accounts[account_key], kw) IN
            IF IsRaise(account) THEN [val |-> account, accounts |-> accounts]
            ELSE [val |-> account,
                  accounts |-> [accounts EXCEPT ![account_key] = account]]
       ELSE LET account == Account(kw) IN
            IF IsRaise(account) THEN [val |-> account, accounts |-> accounts]
            ELSE [val |-> account,
                  accounts |-> [k \in DOMAIN accounts \cup {account_key} |->
                                  IF k = account_key THEN account ELSE accounts[k]]]

\* PaginatedResponse.__init__, as Bank.fetch_accounts(limit, page_limit)
\* calls it
PaginatedResponse(lim, n) ==
  LET params == fetch_accounts_payload(n) IN
  [_params |-> params,
   _per_page_limit |-> IF "limit" \in DOMAIN params.m THEN params.m["limit"].v ELSE 100,
   _url |-> with_query([t |-> "URL", v |-> AccountsUrl], params),
   _extra_args |-> [bank_id |-> PyStr(node_identifier.v)],
   limit |-> lim,
   received |-> 0,
   _page |-> <<>>]

\* _next_page, lines 671-674
pull_limit(p) ==
  IF p.limit = PyNone \/ p.limit.v > p._per_page_limit
  THEN p._per_page_limit
  ELSE p.limit.v

\* mutant of AfterEnvelope: a page shorter than the page size does not end
\* the cursor
AfterEnvelope_IgnoresShortPage(p, env) ==
  LET linked == IF env.m["next"] # PyNone
                THEN [p EXCEPT !._url = env.m["next"],
                               !._params = url_query(env.m["next"])]
                ELSE [p EXCEPT !.limit = PyInt(0)]
      item_count == Len(env.m["results"].s)
  IN  IF linked.limit # PyNone /\ item_count >= p._per_page_limit
      THEN [linked EXCEPT !.limit = PyInt(@.v - item_count)]
      ELSE linked
\* _next_page, lines 680-691: the URL and the limit after the envelope
AfterEnvelope(p, env) ==
  LET linked == IF env.m["next"] # PyNone
                THEN [p EXCEPT !._url = env.m["next"],
                               !._params = url_query(env.m["next"])]
                ELSE [p EXCEPT !.limit = PyInt(0)]
      item_count == Len(env.m["results"].s)
  IN  IF item_count < p._per_page_limit
      THEN [linked EXCEPT !.limit = PyInt(0)]
      ELSE IF linked.limit # PyNone
      THEN [linked EXCEPT !.limit = PyInt(@.v - item_count)]
      ELSE linked

\* the one element of a singleton set
The(S) == CHOOSE x \in S : TRUE

\* _next_page, lines 693-695: the records from the i-th on are transformed,
\* converted and put on the queue, until one of them raises
RECURSIVE PutRecords(_, _, _, _, _)
PutRecords(p0, accounts0, records, i, reg) ==
  The({ IF i > Len(records)
        THEN [p |-> p, accounts |-> accounts, raised |-> PyNone]
        ELSE The({
          IF IsRaise(parsed_data)
          THEN [p |-> p, accounts |-> accounts, raised |-> parsed_data]
          ELSE IF parsed_data.t # "dict"
          THEN [p |-> p, accounts |-> accounts,
                raised |-> TypeError("object is not a mapping")]
          ELSE The({
            IF IsRaise(made.val)
            THEN [p |-> p, accounts |-> accounts, raised |-> made.val]
            ELSE PutRecords([p EXCEPT !._page = Append(@, made.val)],
                            made.accounts, records, i + 1, reg)
            : made \in {create_account(accounts,
                           KwMerge(p._extra_args, parsed_data.m))} })
          : parsed_data \in {Transform(Schema(AccountSchema, FALSE),
                                       records[i], reg)} })
      : p \in {p0}, accounts \in {accounts0} })

\* _next_page, lines 677-695, once the request has returned body
_next_page(p, accounts, body, reg) ==
  The({ IF IsRaise(env)
        THEN [p |-> p, accounts |-> accounts, raised |-> env, fetched |-> FALSE]
        ELSE IF env.m["results"].t # "list"
        THEN [p |-> (IF env.m["next"] # PyNone
                     THEN [p EXCEPT !._url = env.m["next"],
                                    !._params = url_query(env.m["next"])]
                     ELSE [p EXCEPT !.limit = PyInt(0)]),
              accounts |-> accounts,
              raised |-> TypeError("object has no len()"), fetched |-> TRUE]
        ELSE The({ [p |-> put.p, accounts |-> put.accounts,
                    raised |-> put.raised, fetched |-> TRUE]
                   : put \in {PutRecords(AfterEnvelope(p, env), accounts,
                                         env.m["results"].s, 1, reg)} })
      : env \in {Transform(PAGINATOR_BASE, body, reg)} })

\* mutant of Dequeue: an empty queue gives None
Dequeue_ReturnsNone(p) ==
  IF p._page = <<>> THEN [val |-> PyNone, p |-> p]
  ELSE [val |-> Head(p._page), p |-> [p EXCEPT !._page = Tail(@)]]
\* _PaginatedIterator.next, lines 54-57: get_nowait(), or IteratorEmpty
Dequeue(p) ==
  IF p._page = <<>> THEN [val |-> IteratorEmpty, p |-> p]
  ELSE [val |-> Head(p._page), p |-> [p EXCEPT !._page = Tail(@)]]

\* the bodies of page k that do not decode: a non-JSON text, and the page
\* with one of its records lacking a field
BadBodies(k) ==
  {PyStr("<html>")}
  \cup {PyDict(With(Envelope(k).m, "results",
           PyList([pages[k] EXCEPT ![i] = PyDict(Without(pages[k][i].m, "trust"))])))
        : i \in DOMAIN pages[k]}

QueueInit ==
  /\ \E sizes \in Layouts : Len(sizes) <= MaxQueuePages /\ pages = PagesOf(sizes)
  /\ \E lim \in {PyNone} \cup {PyInt(n) : n \in 0..MaxLimit}, n \in 1..MaxPageLimit :
        paginator = PaginatedResponse(lim, n) /\ asked = lim
  /\ fetches = <<>>
  /\ _accounts = NoKw
  /\ limit = 0 /\ _params = PyNone /\ _offset = PyInt(0)
  /\ _num_records = 0 /\ _total = 0 /\ _count = 0
  /\ _next = PyNone /\ _previous = PyNone /\ _data = <<>> /\ _current = 0
  /\ pc = "idle" /\ request = Unset /\ outcome = Unset /\ entry = Unset
  /\ yielded = <<>> /\ flat = Unset
  /\ cursors = Unset
  /\ RegistryInit
  /\ NoEngine
  /\ NoState

\* next(): the queue holds an item, which get_nowait() returns
QueueNextBuffered ==
  /\ pc = "idle"
  /\ paginator._page # <<>>
  /\ entry' = paginator
  /\ paginator' = Dequeue(paginator).p
  /\ Finish(Dequeue(paginator).val)
  /\ UNCHANGED <<engineVars, registryVars, stateVars, pages, cursors, cursorFields, pc,
                 request, fetches, asked, _accounts>>

\* next(): the queue is empty and _next_page pulls nothing (line 676)
QueueNextNoPull ==
  /\ pc = "idle"
  /\ paginator._page = <<>>
  /\ pull_limit(paginator) <= 0
  /\ entry' = paginator
  /\ paginator' = Dequeue(paginator).p
  /\ Finish(Dequeue(paginator).val)
  /\ UNCHANGED <<engineVars, registryVars, stateVars, pages, cursors, cursorFields, pc,
                 request, fetches, asked, _accounts>>

\* next(): the queue is empty, _next_page issues the request (line 677) and
\* next() suspends
QueueNextRequest ==
  /\ pc = "idle"
  /\ paginator._page = <<>>
  /\ pull_limit(paginator) > 0
  /\ entry' = paginator
  /\ request' = [url |-> paginator._url]
  /\ pc' = "request"
  /\ UNCHANGED <<engineVars, registryVars, stateVars, pages, cursors, cursorFields,
                 outcome, yielded, flat, queueVars>>

\* the awaited request raises
QueueRequestFails ==
  /\ pc = "request"
  /\ pc' = "idle"
  /\ Finish(Raise("HTTPException", "request failed"))
  /\ UNCHANGED <<engineVars, registryVars, stateVars, pages, cursors, cursorFields,
                 request, entry, queueVars>>

\* the request returns body: the rest of _next_page, then get_nowait()
QueueResume(body) ==
  \E got \in {_next_page(paginator, _accounts, body, types)} :
     /\ fetches' = IF got.fetched THEN Append(fetches, PageAt(request.url))
                   ELSE fetches
     /\ _accounts' = got.accounts
     /\ IF got.raised # PyNone
        THEN /\ paginator' = got.p
             /\ Finish(got.raised)
        ELSE /\ paginator' = Dequeue(got.p).p
             /\ Finish(Dequeue(got.p).val)
     /\ pc' = "idle"
     /\ UNCHANGED <<engineVars, registryVars, stateVars, pages, cursors, cursorFields,
                    request, entry, asked>>

\* the request returns the page the URL asks for
QueuePageArrives ==
  /\ pc = "request"
  /\ QueueResume(Envelope(PageAt(request.url)))

\* the request returns a body that does not decode
QueuePageBroken ==
  /\ pc = "request"
  /\ \E body \in BadBodies(PageAt(request.url)) : QueueResume(body)

\* flatten() of iter.py: [i async for i in self] starts
QueueFlatten ==
  /\ pc = "idle"
  /\ ~FlatRunning
  /\ flat' = [t |-> "flatten", state |-> "running", fresh |-> (entry = Unset),
              items |-> <<>>]
  /\ UNCHANGED <<engineVars, registryVars, stateVars, pages, cursors, cursorFields, pc,
                 request, outcome, entry, yielded, queueVars>>

QueueNext ==
  \/ QueueNextBuffered
  \/ QueueNextNoPull
  \/ QueueNextRequest
  \/ QueueRequestFails
  \/ QueuePageArrives
  \/ QueuePageBroken
  \/ QueueFlatten

QueueSpec == QueueInit /\ [][QueueNext]_vars

(***************************************************************************)
(* Claims about the queue-based cursor (checked under QueueSpec)           *)
(***************************************************************************)
\* a page shorter than the page size has been fetched
ShortFetched ==
  \E i \in DOMAIN fetches : Len(pages[fetches[i]]) < paginator._per_page_limit

\* C14: once a page whose results are fewer than the page size has been
\* fetched, no further request is issued, whatever its next link; and once
\* its items are consumed every next() signals exhaustion.
C14_ShortPageIsTerminal ==
  [][ShortFetched =>
       /\ pc' = "idle"
       /\ fetches' = fetches
       /\ paginator._page = <<>> =>
             /\ paginator' = paginator
             /\ \/ outcome' = IteratorEmpty /\ yielded' = yielded
                \/ UNCHANGED <<outcome, yielded>> /\ flat' # flat]_vars

\* C14 witness: a short page with records and a link to a next page was
\* fetched, its items were returned, and next() then signalled exhaustion.
C14_Witness ==
  /\ fetches # <<>>
  /\ LET k == fetches[Len(fetches)] IN
       /\ k < Len(pages)
       /\ 0 < Len(pages[k]) /\ Len(pages[k]) < paginator._per_page_limit
       /\ Len(yielded) >= Len(pages[k])
  /\ paginator._page = <<>>
  /\ outcome = IteratorEmpty

\* C15: a cursor built with limit = n returns at most n items.
C15_LimitBoundsItems ==
  asked # PyNone => Len(yielded) <= asked.v

\* C16: a next() that failed (in its fetch, in the envelope or in a record)
\* leaves the URL, the limit and the queue as they were when it began.
C16_FailedCallLeavesCursor ==
  CallFailed => paginator = entry

\* C19: when the first page of a fresh cursor arrives with no results, next()
\* raises IteratorEmpty and a flatten() in progress returns the empty list.
C19_EmptyFirstPageEndsSequence ==
  [][(pc = "request" /\ fetches = <<>> /\ yielded = <<>> /\ fetches' = <<1>>
        /\ pages[1] = <<>>)
       => /\ outcome' = IteratorEmpty
          /\ yielded' = <<>>
          /\ FlatRunning => flat' = [flat EXCEPT !.state = "returned"]
                            /\ flat'.items = <<>>]_vars

\* C19 witness: flatten() ran on a fresh cursor, the first page came back
\* empty, and flatten() returned [].
C19_Witness ==
  /\ pages[1] = <<>> /\ fetches = <<1>>
  /\ outcome = IteratorEmpty /\ yielded = <<>>
  /\ flat # Unset /\ flat.state = "returned" /\ flat.items = <<>>

(***************************************************************************)
(* InternalState (state.py): the node cache, with the Bank and Validator   *)
(* objects it creates kept on a heap so that identity can be told from     *)
(* equality.  A reference is the position of its object on the heap.       *)
(***************************************************************************)
\* most create_bank calls of a behaviour
MaxCalls == 3

\* PublicKey and Timestamp of schemas.py
PublicKey == Key("_key_from_str")
Timestamp == Key("_parse_iso8601_utc")
ValidatorDetailsSchema ==
  Schema(SpecDict(<<"account_number", "ip_address", "node_identifier", "port",
                    "protocol", "version", "default_transaction_fee",
                    "root_account_file", "root_account_file_hash",
                    "seed_block_identifier", "daily_confirmation_rate", "trust">>,
                  [account_number |-> PublicKey, ip_address |-> Url,
                   node_identifier |-> PublicKey, port |-> Maybe(PyType("int")),
                   protocol |-> Key("UrlProtocol"), version |-> PyType("str"),
                   default_transaction_fee |-> PyType("int"),
                   root_account_file |-> Url,
                   root_account_file_hash |-> Key("Fn(bytes.fromhex)"),
                   seed_block_identifier |-> PyType("str"),
                   daily_confirmation_rate |-> PyType("int"),
                   trust |-> Key("float")]),
         FALSE)
BankConfigSchema ==
  Schema(SpecDict(<<"primary_validator", "account_number", "ip_address",
                    "node_identifier", "port", "protocol", "version",
                    "default_transaction_fee", "node_type">>,
                  [primary_validator |-> ValidatorDetailsSchema,
                   account_number |-> PublicKey, ip_address |-> Url,
                   node_identifier |-> PublicKey, port |-> Maybe(PyType("int")),
                   protocol |-> Key("UrlProtocol"), version |-> PyType("str"),
                   default_transaction_fee |-> PyType("int"),
                   node_type |-> Key("NodeType")]),
         FALSE)

\* the node identifiers of the network: every node has its own
BankNids == {"bbbbbbbbbbbbbbbbbbbbbbbbbbbbbbbbbbbbbbbbbbbbbbbbbbbbbbbbbbbbbbbb", "cccccccccccccccccccccccccccccccccccccccccccccccccccccccccccccccc"}
ValidatorNids == {"dddddddddddddddddddddddddddddddddddddddddddddddddddddddddddddddd"}
Versions == {"v1.0", "v1.1"}
Fees == {1, 2}

\* the config a node serves
RawValidator(nid) ==
  [account_number |-> PyStr("a37e2836805975f334108b55523634c995bd2a4db610062f404510617e83126f"),
   ip_address |-> PyStr("10.0.0.2"), node_identifier |-> PyStr(nid),
   port |-> PyNone, protocol |-> PyStr("http"), version |-> PyStr("v1.0"),
   default_transaction_fee |-> PyInt(1),
   root_account_file |-> PyStr("http://10.0.0.2/root.json"),
   root_account_file_hash |-> PyStr("a37e2836805975f334108b55523634c995bd2a4db610062f404510617e83126f"),
   seed_block_identifier |-> PyStr(""), daily_confirmation_rate |-> PyInt(1),
   trust |-> PyStr("2.38")]
RawConfig(nid, version, fee, pv) ==
  [primary_validator |-> PyDict(RawValidator(pv)),
   account_number |-> PyStr("a37e2836805975f334108b55523634c995bd2a4db610062f404510617e83126f"),
   ip_address |-> PyStr("10.0.0.1"), node_identifier |-> PyStr(nid),
   port |-> PyInt(80), protocol |-> PyStr("http"), version |-> PyStr(version),
   default_transaction_fee |-> PyInt(fee), node_type |-> PyStr("BANK")]
Configs ==
  {PyDict(RawConfig(nid, version, fee, pv)) :
     nid \in BankNids, version \in Versions, fee \in Fees, pv \in ValidatorNids}
\* bodies that BankConfigSchema does not transform
BrokenConfigs ==
  {PyStr("<html>")}
  \cup {PyDict(With(c.m, "protocol", PyStr("ftp"))) : c \in Configs}

Ref(n) == [t |-> "ref", id |-> n]

\* Validator(state, **kw) of validator.py
Validator(kw) ==
  IF "node_identifier" \notin DOMAIN kw
  THEN TypeError("missing required keyword-only argument")
  ELSE IF kw["node_identifier"].t # "VerifyKey"
  THEN TypeError("cannot convert object to bytes")
  ELSE [t |-> "Validator", node_identifier |-> PyStr(kw["node_identifier"].v),
        _node_identifier |-> kw["node_identifier"]]

\* Bank._update(**kw)
Bank_update(bank, kw) ==
  IF {"account_number", "ip_address", "protocol", "version",
      "default_transaction_fee", "primary_validator"} \ DOMAIN kw # {}
  THEN TypeError("missing required keyword-only argument")
  ELSE IF "node_type" \in DOMAIN kw /\ kw["node_type"] # PyNone
          /\ kw["node_type"] # NodeType(PyStr("BANK"))
  THEN Raise("AssertionError", "attempt to update a Bank object with non-bank node data")
  ELSE IF kw["account_number"].t # "VerifyKey"
  THEN TypeError("cannot convert object to bytes")
  ELSE IF kw["protocol"].t # "UrlProtocol"
  THEN Raise("AttributeError", "value")
  ELSE LET port == IF "port" \in DOMAIN kw THEN kw["port"] ELSE PyNone
           host == IF kw["ip_address"].t \in {"URL", "str"}
                   THEN kw["ip_address"].v ELSE "object"
       IN [t |-> "Bank",
           node_type |-> bank.node_type,
           _node_identifier |-> bank._node_identifier,
           node_identifier |-> bank.node_identifier,
           _primary_validator |-> bank._primary_validator,
           _account_number |-> kw["account_number"],
           account_number |-> PyStr(kw["account_number"].v),
           version |-> kw["version"],
           transaction_fee |-> kw["default_transaction_fee"],
           ip_address |-> PyStr(host),
           port |-> port,
           protocol |-> kw["protocol"],
           address |-> [t |-> "URL",
                        v |-> kw["protocol"].value \o "://" \o host \o ":"
                              \o (IF Truthy(port) THEN ToString(port.v) ELSE "80")],
           primary_validator |-> kw["primary_validator"]]

\* Bank(state, **kw): Bank.__init__
Bank(kw) ==
  IF {"account_number", "ip_address", "node_identifier", "port", "protocol",
      "version", "default_transaction_fee", "node_type", "primary_validator"}
       \ DOMAIN kw # {}
  THEN TypeError("missing required keyword-only argument")
  ELSE IF DOMAIN kw \ {"account_number", "ip_address", "node_identifier", "port",
                       "protocol", "version", "default_transaction_fee",
                       "node_type", "primary_validator"} # {}
  THEN TypeError("unexpected keyword argument")
  ELSE IF kw["node_type"] # NodeType(PyStr("BANK"))
  THEN Raise("AssertionError", "attempt to initiate a Bank object with non-bank node data")
  ELSE IF kw["node_identifier"].t # "VerifyKey"
  THEN TypeError("cannot convert object to bytes")
  ELSE Bank_update([node_type |-> kw["node_type"],
                    _node_identifier |-> kw["node_identifier"],
                    node_identifier |-> PyStr(kw["node_identifier"].v),
                    _primary_validator |-> kw["primary_validator"]],
                   Without(Without(kw, "node_identifier"), "node_type"))

\* obj._update(**kw) of a cached node: Validator._update does nothing
Node_update(obj, kw) == IF obj.t = "Bank" THEN Bank_update(obj, kw) ELSE obj

\* the cache with key bound to the new last object of the heap
Cached(st, key, obj) ==
  [nodes |-> [k \in DOMAIN st.nodes \cup {key} |->
                IF k = key THEN Len(st.heap) + 1 ELSE st.nodes[k]],
   heap |-> Append(st.heap, obj)]

\* InternalState.create_validator(data), on st = [nodes, heap]
create_validator(st, kw) ==
  IF "node_identifier" \notin DOMAIN kw
  THEN [val |-> Raise("KeyError", "node_identifier"), st |-> st]
  ELSE IF kw["node_identifier"].t # "VerifyKey"
  THEN [val |-> TypeError("cannot convert object to bytes"), st |-> st]
  ELSE LET node_id == kw["node_identifier"].v IN
       IF node_id \in DOMAIN st.nodes
       THEN LET validator == Node_update(st.heap[st.nodes[node_id]], kw) IN
            IF IsRaise(validator) THEN [val |-> validator, st |-> st]
            ELSE [val |-> Ref(st.nodes[node_id]),
                  st |-> [st EXCEPT !.heap[st.nodes[node_id]] = validator]]
       ELSE LET validator == Validator(kw) IN
            IF IsRaise(validator) THEN [val |-> validator, st |-> st]
            ELSE [val |-> Ref(Len(st.heap) + 1), st |-> Cached(st, node_id, validator)]

\* mutant of create_bank: the cache is not looked up
create_bank_AlwaysNew(st, kw) ==
  IF "node_identifier" \notin DOMAIN kw
  THEN [val |-> Raise("KeyError", "node_identifier"), st |-> st]
  ELSE IF kw["node_identifier"].t # "VerifyKey"
  THEN [val |-> TypeError("cannot convert object to bytes"), st |-> st]
  ELSE LET node_id == kw["node_identifier"].v
           made == IF "primary_validator" \in DOMAIN kw
                   THEN create_validator(st, kw["primary_validator"].m)
                   ELSE [val |-> PyNone, st |-> st]
       IN IF IsRaise(made.val) THEN made
          ELSE LET bank == Bank(IF "primary_validator" \in DOMAIN kw
                                THEN With(kw, "primary_validator", made.val)
                                ELSE kw)
               IN IF IsRaise(bank) THEN [val |-> bank, st |-> made.st]
                  ELSE [val |-> Ref(Len(made.st.heap) + 1),
                        st |-> Cached(made.st, node_id, bank)]
\* InternalState.create_bank(data), on st = [nodes, heap]
create_bank(st, kw) ==
  IF "node_identifier" \notin DOMAIN kw
  THEN [val |-> Raise("KeyError", "node_identifier"), st |-> st]
  ELSE IF kw["node_identifier"].t # "VerifyKey"
  THEN [val |-> TypeError("cannot convert object to bytes"), st |-> st]
  ELSE LET node_id == kw["node_identifier"].v IN
       IF node_id \in DOMAIN st.nodes
       THEN LET bank == Node_update(st.heap[st.nodes[node_id]], kw) IN
            IF IsRaise(bank) THEN [val |-> bank, st |-> st]
            ELSE [val |-> Ref(st.nodes[node_id]),
                  st |-> [st EXCEPT !.heap[st.nodes[node_id]] = bank]]
       ELSE LET made == IF "primary_validator" \in DOMAIN kw
                        THEN create_validator(st, kw["primary_validator"].m)
                        ELSE [val |-> PyNone, st |-> st]
            IN IF IsRaise(made.val) THEN made
               ELSE LET bank == Bank(IF "primary_validator" \in DOMAIN kw
                                     THEN With(kw, "primary_validator", made.val)
                                     ELSE kw)
                    IN IF IsRaise(bank) THEN [val |-> bank, st |-> made.st]
                       ELSE [val |-> Ref(Len(made.st.heap) + 1),
                             st |-> Cached(made.st, node_id, bank)]

StateInit ==
  /\ NoState
  /\ NoQueue
  /\ NoCursor
  /\ NoEngine
  /\ RegistryInit

\* the entry of calls for a create_bank call on the served config raw
CallOf(via, self, raw, val) ==
  [via |-> via, self |-> self, nid |-> raw.m["node_identifier"].v,
   version |-> raw.m["version"], fee |-> raw.m["default_transaction_fee"],
   ref |-> val]

\* state.create_bank(new_data) with the transformed config raw
CreateBankWith(via, self, raw) ==
  \E new_data \in {Transform(BankConfigSchema, raw, types)} :
     /\ ~IsRaise(new_data)
     /\ \E made \in {create_bank([nodes |-> _nodes, heap |-> heap], new_data.m)} :
          /\ _nodes' = made.st.nodes
          /\ heap' = made.st.heap
          /\ outcome' = made.val
          /\ calls' = IF IsRaise(made.val) THEN calls
                      ELSE Append(calls, CallOf(via, self, raw, made.val))

\* a node is connected to: its config is fetched, transformed and handed to
\* create_bank
Connect ==
  /\ pc = "idle"
  /\ Len(calls) < MaxCalls
  /\ \E raw \in Configs : CreateBankWith("create_bank", PyNone, raw)
  /\ UNCHANGED <<engineVars, registryVars, queueVars, pages, cursors, cursorFields, pc,
                 request, entry, yielded, flat>>

\* bank.fetch_config(): the request is issued and fetch_config suspends
FetchConfigRequest ==
  /\ pc = "idle"
  /\ Len(calls) < MaxCalls
  /\ \E n \in DOMAIN heap :
       /\ heap[n].t = "Bank"
       /\ request' = [bank |-> Ref(n)]
  /\ pc' = "config"
  /\ UNCHANGED <<engineVars, registryVars, queueVars, stateVars, pages, cursors,
                 cursorFields, outcome, entry, yielded, flat>>

\* the awaited request raises, or returns a body that
\* BankConfigSchema.transform rejects
FetchConfigFails ==
  /\ pc = "config"
  /\ \/ outcome' = Raise("HTTPException", "request failed")
     \/ \E raw \in BrokenConfigs :
          \E new_data \in {Transform(BankConfigSchema, raw, types)} :
             IsRaise(new_data) /\ outcome' = new_data
  /\ pc' = "idle"
  /\ UNCHANGED <<engineVars, registryVars, queueVars, stateVars, pages, cursors,
                 cursorFields, request, entry, yielded, flat>>

\* the request returns the config the node serves now
FetchConfigReturns ==
  /\ pc = "config"
  /\ \E raw \in Configs : CreateBankWith("fetch_config", request.bank, raw)
  /\ pc' = "idle"
  /\ UNCHANGED <<engineVars, registryVars, queueVars, pages, cursors, cursorFields,
                 request, entry, yielded, flat>>

StateNext ==
  \/ Connect
  \/ FetchConfigRequest
  \/ FetchConfigFails
  \/ FetchConfigReturns

StateSpec == StateInit /\ [][StateNext]_vars

(***************************************************************************)
(* Claims about the node cache (checked under StateSpec)                   *)
(***************************************************************************)
\* C20: create_bank returns the same Bank object for every call with the
\* same node identifier; fetch_config of a bank whose node serves a config
\* with the bank's identifier returns the bank itself; the object returned
\* carries the fields of the config of the last call; and the cache holds one
\* object per node identifier, each object under one identifier.
C20_OneBankPerNodeIdentifier ==
  /\ \A i \in DOMAIN calls :
       /\ heap[calls[i].ref.id].t = "Bank"
       /\ heap[calls[i].ref.id].node_identifier.v = calls[i].nid
       /\ calls[i].nid \in DOMAIN _nodes
       /\ _nodes[calls[i].nid] = calls[i].ref.id
       /\ \A j \in DOMAIN calls :
            calls[i].nid = calls[j].nid => calls[i].ref = calls[j].ref
       /\ (calls[i].via = "fetch_config"
             /\ heap[calls[i].self.id].node_identifier.v = calls[i].nid)
            => calls[i].ref = calls[i].self
       /\ (\A j \in (i + 1)..Len(calls) : calls[j].nid # calls[i].nid)
            => /\ heap[calls[i].ref.id].version = calls[i].version
               /\ heap[calls[i].ref.id].transaction_fee = calls[i].fee
  /\ \A a, b \in DOMAIN _nodes : _nodes[a] = _nodes[b] => a = b
  /\ \A n \in DOMAIN heap : \E a \in DOMAIN _nodes : _nodes[a] = n

\* C20 witness: fetch_config on a bank created earlier has returned that
\* bank, now with another version and fee than it was created with.
C20_Witness ==
  /\ Len(calls) = 2
  /\ calls[1].via = "create_bank" /\ calls[2].via = "fetch_config"
  /\ calls[2].self = calls[1].ref /\ calls[2].ref = calls[1].ref
  /\ calls[2].version # calls[1].version /\ calls[2].fee # calls[1].fee
  /\ heap[calls[2].ref.id].version = calls[2].version
  /\ heap[calls[2].ref.id].transaction_fee = calls[2].fee
  /\ outcome = calls[1].ref

(***************************************************************************)
(* AccountSpec: banks that share one InternalState hand it account data,   *)
(* as Bank.set_account_trust does with the record the server answers:      *)
(* data = AccountSchema.transform(result), then                            *)
(* create_account of the state on that data and the bank's own bank_id.    *)
(***************************************************************************)
AccountIds == {"acct1", "acct2"}
TrustStrings == {"0.00", "2.38"}
\* the record of account id as a bank reports it with a trust
TrustRecord(id, trust) == PyDict(With(RawAccount(id), "trust", PyStr(trust)))

AccountInit ==
  /\ NoState
  /\ NoQueue
  /\ NoCursor
  /\ NoEngine
  /\ RegistryInit

\* Bank.set_account_trust, lines 300-303, on the answer of the server
SetAccountTrust ==
  /\ Len(calls) < MaxCalls
  /\ \E id \in AccountIds, trust \in TrustStrings, bank \in BankIds :
       \E parsed \in {Transform(Schema(AccountSchema, FALSE),
                                TrustRecord(id, trust), types)} :
         \E made \in {create_account(_accounts,
                                     KwMerge(parsed.m, [bank_id |-> bank]))} :
           /\ _accounts' = made.accounts
           /\ calls' = Append(calls,
                              [via |-> "set_account_trust",
                               key |-> <<parsed.m["id"], bank>>,
                               cached |-> <<parsed.m["id"], bank>> \in DOMAIN _accounts,
                               kw |-> parsed.m, ref |-> made.val])
  /\ UNCHANGED <<engineVars, registryVars, cursorVars, paginator, fetches,
                 asked, _nodes, heap>>

AccountNext == SetAccountTrust

AccountSpec == AccountInit /\ [][AccountNext]_vars

\* C29: after any sequence of create_account calls every cached account
\* carries the id and the bank_id of the key it is cached under; and the
\* call for a key that is cached returns the cached account with created,
\* modified and trust of the new data and its id unchanged.
C29_CachedAccountMatchesKey ==
  /\ \A k \in DOMAIN _accounts :
       _accounts[k].id = k[1] /\ _accounts[k].bank_id = k[2]
  /\ \A i \in DOMAIN calls :
       (calls[i].via = "set_account_trust" /\ calls[i].cached)
          => /\ calls[i].ref.t = "Account"
             /\ calls[i].ref.id = calls[i].key[1]
             /\ calls[i].ref.bank_id = calls[i].key[2]
             /\ calls[i].ref.created = calls[i].kw["created_date"]
             /\ calls[i].ref.modified = calls[i].kw["modified_date"]
             /\ calls[i].ref.trust = calls[i].kw["trust"]
====
